---------------------------- MODULE Spec2Model ----------------------------
(***************************************************************************)
(* Task supervision core of the orchestrate skills                         *)
(* (plugins/skills/orchestrate-auto-dev/_common/spawner.py).               *)
(*                                                                         *)
(* The specifications share the supervisor's state:                        *)
(*   Spec            one caller driving ClaudeSpawner.spawn_blocking, with *)
(*                   the output-tailing thread and the child process as    *)
(*                   concurrent actors;                                    *)
(*   SpecBackground  background tasks: spawn_agent(background=True) and    *)
(*                   the _execute_task worker threads;                     *)
(*   SpecExit        the same racing with the atexit handler               *)
(*                   _cleanup_all_processes;                               *)
(*   SpecWait        the same with a caller blocked in wait_all, under     *)
(*                   fair scheduling;                                      *)
(*   SpecPoll        the same with a caller polling get_result(False);     *)
(*   SpecKill        _kill_process_tree step by step on one handle;        *)
(*   SpecEscalation  _handle_critical_error and get_critical_errors called *)
(*                   one at a time, with a caller modifying the list it    *)
(*                   was handed;                                           *)
(*   SpecExecute     _execute_escalation_action on its own;                *)
(*   SpecClassify    _classify_error_severity on its own.                  *)
(*                                                                         *)
(* More specifications cover the helpers beside the supervisor:            *)
(*   SpecHealth      HealthChecker (_common/health_checker.py) on one pid; *)
(*   SpecRetry       RetryHandler.retry (_common/retry_handler.py);        *)
(*   SpecDelay       RetryHandler._calculate_delay on its own;             *)
(*   SpecIds         the task ids spawn_blocking and spawn_agent give out; *)
(*   SpecHandles     BackgroundTask handles, is_done, is_running and       *)
(*                   get_active_tasks.                                     *)
(*                                                                         *)
(* Time is abstract: "elapsed > timeout" and "join(timeout=1) gave up" are *)
(* choices of the environment, as are the child's exit code, its stderr    *)
(* text, the answer of the decision callback and I/O faults raised inside  *)
(* the try blocks.                                                         *)
(***************************************************************************)
EXTENDS Integers, Sequences, FiniteSets, TLC

VARIABLES
    \* ---- supervisor (ClaudeSpawner.__init__, lines 168-179)
    on_critical_error,        \* "none" | "set": is a decision callback configured
    default_escalation,       \* EscalationAction used without / after a failing callback
    task_counter,             \* _task_counter: background tasks created
    all_spawned_processes,    \* _all_spawned_processes: sequence of process ids
    critical_errors,          \* _critical_errors: sequence of CriticalError
    \* ---- one spawn_blocking call (locals of lines 465-488)
    calls,                    \* spawn_blocking calls begun so far
    pc,                       \* position of the caller inside spawn_blocking
    actual_show,              \* stream output to the console
    process,                  \* the Popen handle: [state, returncode]
    stderr_content,           \* text the child wrote to its stderr sink
    stdout_path, stderr_path, \* does the sink file exist on disk
    stdout_sink,              \* text the child wrote to its stdout sink
    stdout_content,           \* what _read_and_cleanup returned for that sink
    stop_tailing,             \* threading.Event
    tail_thread,              \* "none" | "check" | "read" | "done"
    exc,                      \* exception being handled: "none"|"launch"|"io"|"abort"
    result,                   \* TaskResult constructed last in this call
    events,                   \* history of this call (what happened, in order)
    \* ---- background tasks and the exit handler
    task,                     \* task id -> BackgroundTask and its worker's position
    handler,                  \* _cleanup_all_processes: [pc, i]
    \* ---- the caller's view of background tasks, and one tree-kill
    waiter,                   \* wait_all: [pc, i, results]
    returned,                 \* what get_result(block=False) returned last
    killer,                   \* _kill_process_tree: [pc, n, process, ...]
    \* ---- single calls of the supervisor's decision routines
    configured_default,       \* default_escalation argument of __init__
    decision,                 \* the last _handle_critical_error call
    executed,                 \* the last _execute_escalation_action call
    errors_copy,              \* the list get_critical_errors handed out
    classification,           \* one _classify_error_severity call
    \* ---- HealthChecker and RetryHandler
    checker,                  \* HealthChecker, the process it inspects
    retrier,                  \* one RetryHandler.retry call
    \* ---- task ids and task handles
    issuer,                   \* ids given out: [now, _task_counter, ...]
    handles                   \* BackgroundTask handles and one query

vars == <<on_critical_error, default_escalation, task_counter,
          all_spawned_processes, critical_errors, calls, pc, actual_show,
          process,
          stderr_content, stdout_path, stderr_path, stdout_sink,
          stdout_content, stop_tailing, tail_thread,
          exc, result, events, task, handler, waiter, returned, killer,
          configured_default, decision, executed, errors_copy,
          classification,
          checker, retrier, issuer, handles>>

supervisorVars == <<on_critical_error, default_escalation>>
sinkVars == <<stdout_sink, stdout_content>>
blockingVars == <<calls, pc, actual_show, process, stderr_content, stdout_path,
                  stderr_path, stop_tailing, tail_thread, exc, result, events,
                  sinkVars>>
backgroundVars == <<task_counter, task, handler>>
clientVars == <<waiter, returned, killer>>
unitVars == <<configured_default, decision, executed, errors_copy,
          classification,
              checker, retrier, issuer, handles>>

---------------------------------------------------------------------------
(* Bounds *)

\* spawn_blocking calls made one after another by the caller
MaxSpawns == 2

\* background tasks the caller creates with spawn_agent(background=True)
MaxTasks == 2

\* calls of the tree-kill on one process handle, one after another
MaxKills == 2

---------------------------------------------------------------------------
(* Enumerations: TaskStatus, ErrorSeverity, EscalationAction (lines 21-43) *)

TaskStatus == {"pending", "running", "completed", "failed", "timeout",
               "critical_error"}

ErrorSeverity == {"recoverable", "critical", "fatal"}

EscalationAction == {"continue", "stop_pipeline", "retry", "ask_human"}

\* What one invocation of the decision callback can do: answer, or raise.
CallbackAnswers == EscalationAction \cup {"raise"}

\* Exit codes a child can end with on its own (negative: killed by a signal
\* sent by somebody else), and what subprocess reports after SIGTERM.
ExitCodes == {0, 1, 100, -9}

SIGTERM == 15

\* stderr texts, as sequences of fragments; a pattern occurs in a text when
\* one of the fragments is the pattern up to letter case.
StderrSamples == { <<>>,
                   <<"segfault">>,
                   <<"PERMISSION DENIED">>,
                   <<"try again">>,
                   <<"Try again", "Permission denied">> }

\* stdout texts: one that decodes, and bytes that are not valid text in the
\* encoding open(filepath, 'r') uses
Undecodable == "0xFF 0xFE"
StdoutSamples == {"OK", Undecodable}

NoProcess == [state |-> "none", returncode |-> 0]
NoError == [severity |-> "none", message |-> "none", call |-> 0]
NoResult == [success |-> FALSE, output |-> "", exit_code |-> 0,
             status |-> "pending", error_severity |-> "none", critical_error |-> NoError]

\* A BackgroundTask not created yet (dataclass defaults, lines 72-83), with
\* the position of its worker thread and what became of its on_complete
\* callback ("none": not invoked).
NoTask == [pc |-> "unspawned", status |-> "pending", result |-> NoResult,
           process |-> NoProcess, on_complete |-> "none"]

\* wait_all not called; get_result(block=False) not called; no tree-kill
\* under way
NoWait == [pc |-> "idle", i |-> 0, results |-> <<>>]
NoReturn == [task |-> 0, value |-> NoResult]
NoKill == [pc |-> "idle", n |-> 0, process |-> NoProcess, raised |-> "none",
           signals |-> <<>>, errors |-> <<>>]

\* No _handle_critical_error, _execute_escalation_action, get_critical_errors
\* or _classify_error_severity call made yet
NoDecision == [error |-> NoError, answer |-> "none", action |-> "none",
               raised |-> "none"]
NoExecuted == [action |-> "none", task_result |-> NoResult, task_id |-> "",
               continue |-> FALSE]
NoCopy == [list |-> "none", items |-> <<>>, taken |-> 0]
NoClassified == [exit_code |-> 0, error_output |-> <<>>, status |-> "pending",
                 severity |-> "none"]

\* No HealthChecker and no RetryHandler constructed
NoChecker == [pc |-> "none"]
NoRetrier == [pc |-> "none"]

\* No id given out and no handle made
NoIssuer == [pc |-> "none"]
NoHandles == [pc |-> "none"]

---------------------------------------------------------------------------
(* ErrorClassifier: ClaudeSpawner._classify_error_severity (lines 208-266) *)

critical_patterns ==
    <<"API rate limit", "Authentication failed", "Permission denied",
      "Out of memory", "Disk full", "Network unreachable",
      "Internal server error", "CRITICAL">>

recoverable_patterns ==
    <<"Connection timeout", "Temporary failure",
      "Resource temporarily unavailable", "Try again">>

\* str.lower() on the fragments and patterns the model uses
Lower(s) ==
    CASE s \in {"API rate limit"} -> "api rate limit"
      [] s \in {"Authentication failed"} -> "authentication failed"
      [] s \in {"Permission denied", "PERMISSION DENIED"} -> "permission denied"
      [] s \in {"Out of memory"} -> "out of memory"
      [] s \in {"Disk full"} -> "disk full"
      [] s \in {"Network unreachable"} -> "network unreachable"
      [] s \in {"Internal server error"} -> "internal server error"
      [] s \in {"CRITICAL", "critical"} -> "critical"
      [] s \in {"Connection timeout"} -> "connection timeout"
      [] s \in {"Temporary failure"} -> "temporary failure"
      [] s \in {"Resource temporarily unavailable"} -> "resource temporarily unavailable"
      [] s \in {"Try again", "TRY AGAIN"} -> "try again"
      [] OTHER -> s

\* pattern.lower() in error_lower
PatternIn(pattern, error_output) ==
    \E i \in 1..Len(error_output) : Lower(error_output[i]) = Lower(pattern)

AnyPatternIn(patterns, error_output) ==
    \E k \in 1..Len(patterns) : PatternIn(patterns[k], error_output)

_classify_error_severity_code_first(exit_code, error_output, status) ==
    IF status = "timeout" THEN "fatal"
    ELSE IF exit_code < 0 THEN "critical"
    ELSE IF exit_code >= 100 THEN "critical"
    ELSE IF AnyPatternIn(critical_patterns, error_output) THEN "critical"
    ELSE "recoverable"

_classify_error_severity_over_100(exit_code, error_output, status) ==
    IF status = "timeout" THEN "fatal"
    ELSE IF AnyPatternIn(critical_patterns, error_output) THEN "critical"
    ELSE IF AnyPatternIn(recoverable_patterns, error_output) THEN "recoverable"
    ELSE IF exit_code = 0 THEN "recoverable"
    ELSE IF exit_code < 0 THEN "critical"
    ELSE IF exit_code > 100 THEN "critical"
    ELSE "recoverable"

_classify_error_severity(exit_code, error_output, status) ==
    IF status = "timeout" THEN "fatal"
    ELSE IF AnyPatternIn(critical_patterns, error_output) THEN "critical"
    ELSE IF AnyPatternIn(recoverable_patterns, error_output) THEN "recoverable"
    ELSE IF exit_code = 0 THEN "recoverable"
    ELSE IF exit_code < 0 THEN "critical"
    ELSE IF exit_code >= 100 THEN "critical"
    ELSE "recoverable"

---------------------------------------------------------------------------
(* EscalationPolicy (lines 268-349) *)

\* The CriticalError record the supervisor builds; `call` is the ordinal of
\* the spawn_blocking call that built it.
CriticalError(severity, message) ==
    [severity |-> severity, message |-> message, call |-> calls]

\* What the callback hands back when it hands back no EscalationAction: line
\* 299 reads action.value inside the try, so the AttributeError is handled
\* like an exception of the callback.
NotAnAction == "None"

DecisionDefaultOnly(answer) == default_escalation

\* _handle_critical_error, lines 295-307: the action returned, given what the
\* callback does when it is invoked.
Decision(answer) ==
    IF on_critical_error = "set" /\ answer \in EscalationAction
    THEN answer
    ELSE default_escalation

HandleEventsDecideFirst(answer) ==
    IF on_critical_error = "set"
    THEN <<"callback">>
            \o (IF answer = "raise" THEN <<"callback_raised">> ELSE <<>>)
            \o <<Decision(answer), "append">>
    ELSE <<Decision(answer), "append">>

\* _handle_critical_error's trace: the error is stored (line 293) before the
\* callback is invoked (line 298), which may raise (line 301); the trace ends
\* with the action returned.
HandleEvents(answer) ==
    IF on_critical_error = "set"
    THEN <<"append", "callback">>
            \o (IF answer = "raise" THEN <<"callback_raised">> ELSE <<>>)
            \o <<Decision(answer)>>
    ELSE <<"append", Decision(answer)>>

\* What the environment chooses for one _handle_critical_error call.
Answers == IF on_critical_error = "set" THEN CallbackAnswers ELSE {"raise"}

\* _execute_escalation_action, lines 326-349: should the pipeline continue
_execute_escalation_action_open(action) ==
    CASE action = "continue" -> TRUE
      [] action = "stop_pipeline" -> FALSE
      [] action = "retry" -> TRUE
      [] action = "ask_human" -> FALSE
      [] OTHER -> TRUE

_execute_escalation_action(action) ==
    CASE action = "continue" -> TRUE
      [] action = "stop_pipeline" -> FALSE
      [] action = "retry" -> TRUE
      [] action = "ask_human" -> FALSE
      [] OTHER -> FALSE

---------------------------------------------------------------------------
(* Forced termination: ClaudeSpawner._kill_process_tree (lines 1090-1122) *)

\* The handle after the tree-kill.  No handle: return at once (line 1092).
\* A child that already ended: the signals fail with ProcessLookupError, which
\* is swallowed.  A running child ends by the signal.
_kill_process_tree(p) ==
    IF p.state = "running"
    THEN [state |-> "killed", returncode |-> -SIGTERM]
    ELSE p

\* process.poll() is None
PollIsNone(p) == p.state = "running"

---------------------------------------------------------------------------
(* Output sinks: ClaudeSpawner._read_and_cleanup (lines 1068-1088) *)

\* What is returned for a sink: nothing for a file that is gone (line 1070);
\* else the text read (lines 1074-1080), or nothing when open/read raised
\* (lines 1081-1088).  The file is unlinked in both cases.
_read_and_cleanup(exists, content) ==
    IF ~exists THEN ""
    ELSE IF content = Undecodable THEN ""
    ELSE content

---------------------------------------------------------------------------
(* TaskResult values built by spawn_blocking *)

\* lines 585-594
TimeoutResult(ce) ==
    [success |-> FALSE, output |-> stdout_content, exit_code |-> -1,
     status |-> "timeout", error_severity |-> "fatal", critical_error |-> ce]

CriticalExitResultBare(exit_code, severity, ce) ==
    [success |-> FALSE, output |-> stdout_content, exit_code |-> exit_code,
     status |-> IF severity = "critical" THEN "critical_error" ELSE "failed",
     error_severity |-> severity, critical_error |-> NoError]

\* lines 681-690
CriticalExitResult(exit_code, severity, ce) ==
    [success |-> FALSE, output |-> stdout_content, exit_code |-> exit_code,
     status |-> IF severity = "critical" THEN "critical_error" ELSE "failed",
     error_severity |-> severity, critical_error |-> ce]

\* lines 704-712 (status keeps the dataclass default, COMPLETED)
PlainResult(exit_code, severity) ==
    [success |-> (exit_code = 0), output |-> stdout_content,
     exit_code |-> exit_code, status |-> "completed", error_severity |-> severity,
     critical_error |-> NoError]

\* lines 747-756
ExceptionResult(ce) ==
    [success |-> FALSE, output |-> "", exit_code |-> -1,
     status |-> "critical_error", error_severity |-> "critical",
     critical_error |-> ce]

ShouldClassifyAlways(exit_code) == TRUE

\* line 661: is the exit classified at all
ShouldClassify(exit_code) == exit_code # 0

IsEscalatedFatalOnly(severity) == severity = "fatal"

\* line 667: does the severity produce a CriticalError and an escalation
IsEscalated(severity) == severity \in {"critical", "fatal"}

ExceptionSeverityClassified ==
    _classify_error_severity(-1, stderr_content, "critical_error")

\* lines 735-737: the severity given to an exception
ExceptionSeverity == "critical"

---------------------------------------------------------------------------
(* ClaudeSpawner.spawn_blocking (lines 444-767)                            *)

Remove(seq, x) == SelectSeq(seq, LAMBDA y : y # x)

\* lines 465-488: a new call; the two sinks are created, nothing is launched
SpawnBlocking ==
    /\ pc \in {"idle", "returned", "raised"}
    /\ calls < MaxSpawns
    /\ calls' = calls + 1
    /\ \E show \in BOOLEAN : actual_show' = show
    /\ stdout_path' = TRUE
    /\ stderr_path' = TRUE
    /\ process' = NoProcess
    /\ stderr_content' = <<>>
    /\ stop_tailing' = FALSE
    /\ tail_thread' = "none"
    /\ exc' = "none"
    /\ result' = NoResult
    /\ events' = <<>>
    /\ pc' = "popen"
    /\ stdout_sink' = ""
    /\ stdout_content' = ""
    /\ UNCHANGED <<supervisorVars, unitVars, clientVars,
                   all_spawned_processes, critical_errors,
                   backgroundVars>>

\* lines 492-531: Popen succeeds, the handle is registered, tailing starts
PopenStarts ==
    /\ pc = "popen"
    /\ process' = [state |-> "running", returncode |-> 0]
    /\ all_spawned_processes' = Append(all_spawned_processes, calls)
    /\ tail_thread' = IF actual_show THEN "check" ELSE "none"
    /\ events' = Append(events, "launched")
    /\ pc' = "poll"
    /\ \E text \in StdoutSamples : stdout_sink' = text
    /\ stdout_content' = stdout_content
    /\ UNCHANGED <<supervisorVars, unitVars, clientVars,
                   calls, critical_errors, actual_show,
                   stderr_content, stdout_path, stderr_path, stop_tailing, exc,
                   result, backgroundVars>>

\* line 492: Popen raises (command not found, fork failure)
PopenRaises ==
    /\ pc = "popen"
    /\ exc' = "launch"
    /\ events' = Append(events, "launch_failed")
    /\ pc' = "except"
    /\ UNCHANGED <<supervisorVars, unitVars, clientVars, sinkVars,
                   calls, all_spawned_processes,
                   critical_errors, actual_show, process, stderr_content,
                   stdout_path, stderr_path, stop_tailing, tail_thread, result,
                   backgroundVars>>

\* the child ends on its own, whatever the supervisor is doing
ProcessExits ==
    /\ process.state = "running"
    /\ \E code \in ExitCodes, text \in StderrSamples :
          /\ process' = [state |-> "exited", returncode |-> code]
          /\ stderr_content' = text
    /\ UNCHANGED <<supervisorVars, unitVars, clientVars, sinkVars,
                   calls, all_spawned_processes,
                   critical_errors, pc, actual_show, stdout_path, stderr_path,
                   stop_tailing, tail_thread, exc, result, events,
                   backgroundVars>>

\* line 538: the loop condition
Poll ==
    /\ pc = "poll"
    /\ IF PollIsNone(process)
       THEN pc' = "sleep" /\ events' = events
       ELSE pc' = "stop_tail" /\ events' = Append(events, "exited")
    /\ UNCHANGED <<supervisorVars, unitVars, clientVars, sinkVars,
                   calls, all_spawned_processes,
                   critical_errors, actual_show, process, stderr_content,
                   stdout_path, stderr_path, stop_tailing, tail_thread, exc,
                   result, backgroundVars>>

\* lines 539-548: sleep, then elapsed <= actual_timeout
SleepWithinTimeout ==
    /\ pc = "sleep"
    /\ pc' = "poll"
    /\ UNCHANGED <<supervisorVars, unitVars, clientVars, sinkVars,
                   calls, all_spawned_processes,
                   critical_errors, actual_show, process, stderr_content,
                   stdout_path, stderr_path, stop_tailing, tail_thread, exc,
                   result, events, backgroundVars>>

\* lines 539-548: sleep, then elapsed > actual_timeout; the child is not
\* polled again before the timeout branch is taken
SleepPastTimeout ==
    /\ pc = "sleep"
    /\ events' = Append(events, IF PollIsNone(process) THEN "timeout"
                                ELSE "timeout_after_exit")
    /\ pc' = "timeout_kill"
    /\ UNCHANGED <<supervisorVars, unitVars, clientVars, sinkVars,
                   calls, all_spawned_processes,
                   critical_errors, actual_show, process, stderr_content,
                   stdout_path, stderr_path, stop_tailing, tail_thread, exc,
                   result, backgroundVars>>

\* lines 550-553
TimeoutKill ==
    /\ pc = "timeout_kill"
    /\ process' = _kill_process_tree(process)
    /\ events' = Append(events, "kill")
    /\ stop_tailing' = TRUE
    /\ pc' = "timeout_join"
    /\ UNCHANGED <<supervisorVars, unitVars, clientVars, sinkVars,
                   calls, all_spawned_processes,
                   critical_errors, actual_show, stderr_content, stdout_path,
                   stderr_path, tail_thread, exc, result, backgroundVars>>

\* where tail_thread.join(timeout=1) is called, and where the caller goes next
JoinSites == [timeout_join |-> "timeout_close", join |-> "deregister",
              except_join |-> "except_kill"]

\* lines 554-555, 609-610, 719-720: the tailing thread has ended (or was
\* never started) and join returns
JoinReturns ==
    /\ pc \in DOMAIN JoinSites
    /\ tail_thread \in {"none", "done"}
    /\ pc' = JoinSites[pc]
    /\ UNCHANGED <<supervisorVars, unitVars, clientVars, sinkVars,
                   calls, all_spawned_processes,
                   critical_errors, actual_show, process, stderr_content,
                   stdout_path, stderr_path, stop_tailing, tail_thread, exc,
                   result, events, backgroundVars>>

\* the same lines: the tailing thread is held up in its read-and-forward
\* step for more than the second join waits, and the caller goes on
JoinTimesOut ==
    /\ pc \in DOMAIN JoinSites
    /\ tail_thread = "read"
    /\ pc' = JoinSites[pc]
    /\ UNCHANGED <<supervisorVars, unitVars, clientVars, sinkVars,
                   calls, all_spawned_processes,
                   critical_errors, actual_show, process, stderr_content,
                   stdout_path, stderr_path, stop_tailing, tail_thread, exc,
                   result, events, backgroundVars>>

\* lines 607-608: the loop ended because the child ended
NormalStopTail ==
    /\ pc = "stop_tail"
    /\ stop_tailing' = TRUE
    /\ pc' = "join"
    /\ UNCHANGED <<supervisorVars, unitVars, clientVars, sinkVars,
                   calls, all_spawned_processes,
                   critical_errors, actual_show, process, stderr_content,
                   stdout_path, stderr_path, tail_thread, exc, result, events,
                   backgroundVars>>

\* lines 618-620: the handle leaves the registry (normal path only)
Deregister ==
    /\ pc = "deregister"
    /\ all_spawned_processes' = Remove(all_spawned_processes, calls)
    /\ pc' = "close"
    /\ UNCHANGED <<supervisorVars, unitVars, clientVars, sinkVars,
                   calls, critical_errors, actual_show,
                   process, stderr_content, stdout_path, stderr_path,
                   stop_tailing, tail_thread, exc, result, events,
                   backgroundVars>>

\* lines 557-561 and 623-627: the sink handles are flushed and closed
CloseSinks ==
    /\ pc \in {"close", "timeout_close"}
    /\ pc' = IF pc = "close" THEN "read" ELSE "timeout_read"
    /\ UNCHANGED <<supervisorVars, unitVars, clientVars, sinkVars,
                   calls, all_spawned_processes,
                   critical_errors, actual_show, process, stderr_content,
                   stdout_path, stderr_path, stop_tailing, tail_thread, exc,
                   result, events, backgroundVars>>

\* lines 563-564 and 630-631: _read_and_cleanup of both sinks (lines
\* 1068-1088): the content is read and the file is unlinked
ReadSinks ==
    /\ pc \in {"read", "timeout_read"}
    /\ stdout_path' = FALSE
    /\ stderr_path' = FALSE
    /\ events' = Append(events, "read")
    /\ pc' = IF pc = "read" THEN "classify" ELSE "timeout_escalate"
    /\ stdout_content' = _read_and_cleanup(stdout_path, stdout_sink)
    /\ stdout_sink' = stdout_sink
    /\ UNCHANGED <<supervisorVars, unitVars, clientVars, calls, all_spawned_processes,
                   critical_errors, actual_show, process, stderr_content,
                   stop_tailing, tail_thread, exc, result, backgroundVars>>

\* An exception raised by a statement of the try block other than Popen and
\* the abort: the logger's unguarded writes while the child runs (lines 544,
\* 549) or after the sinks were read (lines 635-655), flush and close of the
\* sinks (lines 557-560, 623-626).  Caught at line 714.
MonitoringFaultSites == {"sleep", "close", "timeout_close", "classify"}

MonitoringRaises ==
    /\ pc \in MonitoringFaultSites
    /\ exc' = "io"
    /\ events' = Append(events, "io_fault")
    /\ pc' = "except"
    /\ UNCHANGED <<supervisorVars, unitVars, clientVars, sinkVars,
                   calls, all_spawned_processes,
                   critical_errors, actual_show, process, stderr_content,
                   stdout_path, stderr_path, stop_tailing, tail_thread, result,
                   backgroundVars>>

\* _handle_critical_error (lines 268-307), construction of the TaskResult,
\* _execute_escalation_action (lines 309-349), then return or raise.  Inside
\* the try block the RuntimeError raised at lines 601 and 698 is an Exception
\* and is caught by the handler at line 714; raised from the handler (line
\* 763) it leaves spawn_blocking.
Escalate(before, ce, res, in_try) ==
    \E answer \in Answers :
        LET action == Decision(answer)
            should_continue == _execute_escalation_action(action)
        IN  /\ critical_errors' = Append(critical_errors, ce)
            /\ result' = res
            /\ events' = events \o before \o HandleEvents(answer)
                            \o <<"result", "execute">>
                            \o <<IF should_continue THEN "return"
                                 ELSE IF in_try THEN "abort" ELSE "raise">>
            /\ pc' = IF should_continue THEN "returned"
                     ELSE IF in_try THEN "except" ELSE "raised"
            /\ exc' = IF ~should_continue /\ in_try THEN "abort" ELSE exc

\* lines 569-605
TimeoutEscalate ==
    /\ pc = "timeout_escalate"
    /\ LET ce == CriticalError("fatal", "timeout")
       IN  Escalate(<<>>, ce, TimeoutResult(ce), TRUE)
    /\ UNCHANGED <<supervisorVars, unitVars, clientVars, sinkVars,
                   calls, all_spawned_processes,
                   actual_show, process, stderr_content, stdout_path,
                   stderr_path, stop_tailing, tail_thread, backgroundVars>>

\* lines 657-702: a non-zero exit whose severity escalates
ClassifyEscalate ==
    /\ pc = "classify"
    /\ ShouldClassify(process.returncode)
    /\ LET severity == _classify_error_severity(process.returncode,
                                                stderr_content, "failed")
           ce == CriticalError(severity, "exit")
       IN  /\ IsEscalated(severity)
           /\ Escalate(<<"classify">>, ce,
                       CriticalExitResult(process.returncode, severity, ce),
                       TRUE)
    /\ UNCHANGED <<supervisorVars, unitVars, clientVars, sinkVars,
                   calls, all_spawned_processes,
                   actual_show, process, stderr_content, stdout_path,
                   stderr_path, stop_tailing, tail_thread, backgroundVars>>

\* lines 657-667, 704-712: exit code 0, or a severity that does not escalate
ClassifyReturn ==
    /\ pc = "classify"
    /\ LET classified == ShouldClassify(process.returncode)
           severity == IF classified
                       THEN _classify_error_severity(process.returncode,
                                                     stderr_content, "failed")
                       ELSE "none"
       IN  /\ ~(classified /\ IsEscalated(severity))
           /\ result' = PlainResult(process.returncode, severity)
           /\ events' = events
                          \o (IF classified THEN <<"classify">> ELSE <<>>)
                          \o <<"result", "return">>
    /\ pc' = "returned"
    /\ UNCHANGED <<supervisorVars, unitVars, clientVars, sinkVars,
                   calls, all_spawned_processes,
                   critical_errors, actual_show, process, stderr_content,
                   stdout_path, stderr_path, stop_tailing, tail_thread, exc,
                   backgroundVars>>

\* lines 714-720
ExceptStopTail ==
    /\ pc = "except"
    /\ stop_tailing' = TRUE
    /\ pc' = "except_join"
    /\ UNCHANGED <<supervisorVars, unitVars, clientVars, sinkVars,
                   calls, all_spawned_processes,
                   critical_errors, actual_show, process, stderr_content,
                   stdout_path, stderr_path, tail_thread, exc, result, events,
                   backgroundVars>>

ExceptKillSkipped ==
    /\ pc = "except_kill"
    /\ pc' = "except_cleanup"
    /\ UNCHANGED <<supervisorVars, unitVars, clientVars, sinkVars,
                   calls, all_spawned_processes,
                   critical_errors, actual_show, process, stderr_content,
                   stdout_path, stderr_path, stop_tailing, tail_thread, exc,
                   result, events, backgroundVars>>

\* line 723: the tree-kill of the handler (no handle: nothing is signalled)
ExceptKill ==
    /\ pc = "except_kill"
    /\ process' = _kill_process_tree(process)
    /\ events' = IF process.state = "none" THEN events
                 ELSE Append(events, "kill")
    /\ pc' = "except_cleanup"
    /\ UNCHANGED <<supervisorVars, unitVars, clientVars, sinkVars,
                   calls, all_spawned_processes,
                   critical_errors, actual_show, stderr_content, stdout_path,
                   stderr_path, stop_tailing, tail_thread, exc, result,
                   backgroundVars>>

\* lines 725-732: the sinks are closed and removed, their content dropped
ExceptCleanup ==
    /\ pc = "except_cleanup"
    /\ stdout_path' = FALSE
    /\ stderr_path' = FALSE
    /\ pc' = "except_escalate"
    /\ UNCHANGED <<supervisorVars, unitVars, clientVars, sinkVars,
                   calls, all_spawned_processes,
                   critical_errors, actual_show, process, stderr_content,
                   stop_tailing, tail_thread, exc, result, events,
                   backgroundVars>>

\* lines 734-767
ExceptEscalate ==
    /\ pc = "except_escalate"
    /\ LET ce == CriticalError(ExceptionSeverity, "exception")
       IN  Escalate(<<>>, ce, ExceptionResult(ce), FALSE)
    /\ UNCHANGED <<supervisorVars, unitVars, clientVars, sinkVars,
                   calls, all_spawned_processes,
                   actual_show, process, stderr_content, stdout_path,
                   stderr_path, stop_tailing, tail_thread, backgroundVars>>

---------------------------------------------------------------------------
(* tail_output, the output-tailing thread of one spawn (lines 506-531) *)

\* line 513: the loop condition (the sleep of line 528 precedes it)
TailCheck ==
    /\ tail_thread = "check"
    /\ tail_thread' = IF stop_tailing THEN "done" ELSE "read"
    /\ UNCHANGED <<supervisorVars, unitVars, clientVars, sinkVars,
                   calls, all_spawned_processes,
                   critical_errors, pc, actual_show, process, stderr_content,
                   stdout_path, stderr_path, stop_tailing, exc, result, events,
                   backgroundVars>>

\* lines 514-526: flush, open and read the stdout sink, print what is new; a
\* sink that is gone makes open() raise, which the bare except swallows
TailRead ==
    /\ tail_thread = "read"
    /\ tail_thread' = "check"
    /\ UNCHANGED <<supervisorVars, unitVars, clientVars, sinkVars,
                   calls, all_spawned_processes,
                   critical_errors, pc, actual_show, process, stderr_content,
                   stdout_path, stderr_path, stop_tailing, exc, result, events,
                   backgroundVars>>

---------------------------------------------------------------------------
(* spawn_blocking driven by one caller *)

\* The supervisor after ClaudeSpawner.__init__ (lines 168-196), nothing
\* spawned yet
InitSupervisor ==
    /\ on_critical_error \in {"none", "set"}
    /\ default_escalation \in EscalationAction
    /\ task_counter = 0
    /\ calls = 0
    /\ all_spawned_processes = <<>>
    /\ critical_errors = <<>>
    /\ pc = "idle"
    /\ actual_show = FALSE
    /\ process = NoProcess
    /\ stderr_content = <<>>
    /\ stdout_sink = ""
    /\ stdout_content = ""
    /\ stdout_path = FALSE
    /\ stderr_path = FALSE
    /\ stop_tailing = FALSE
    /\ tail_thread = "none"
    /\ exc = "none"
    /\ result = NoResult
    /\ events = <<>>
    /\ task = [t \in 1..MaxTasks |-> NoTask]
    /\ handler = [pc |-> "idle", i |-> 0, process |-> 0]
    /\ waiter = NoWait
    /\ returned = NoReturn
    /\ killer = NoKill

\* No decision routine called on its own, no health checker, no retry
IdleUnits ==
    /\ decision = NoDecision
    /\ executed = NoExecuted
    /\ errors_copy = NoCopy
    /\ classification = NoClassified
    /\ checker = NoChecker
    /\ retrier = NoRetrier
    /\ issuer = NoIssuer
    /\ handles = NoHandles

Init ==
    /\ InitSupervisor
    /\ configured_default = default_escalation
    /\ IdleUnits

Next ==
    \/ SpawnBlocking
    \/ PopenStarts
    \/ PopenRaises
    \/ ProcessExits
    \/ Poll
    \/ SleepWithinTimeout
    \/ SleepPastTimeout
    \/ TimeoutKill
    \/ JoinReturns
    \/ JoinTimesOut
    \/ NormalStopTail
    \/ Deregister
    \/ CloseSinks
    \/ ReadSinks
    \/ MonitoringRaises
    \/ TimeoutEscalate
    \/ ClassifyEscalate
    \/ ClassifyReturn
    \/ ExceptStopTail
    \/ ExceptKill
    \/ ExceptCleanup
    \/ ExceptEscalate
    \/ TailCheck
    \/ TailRead

Spec == Init /\ [][Next]_vars

---------------------------------------------------------------------------
(* Reading the history of the current spawn_blocking call *)

Has(e) == \E i \in DOMAIN events : events[i] = e

\* index of the first occurrence of an event of the set, 0 if there is none
First(es) ==
    IF \E i \in DOMAIN events : events[i] \in es
    THEN CHOOSE i \in DOMAIN events :
            /\ events[i] \in es
            /\ \A j \in 1..(i - 1) : events[j] \notin es
    ELSE 0

\* the call is over: a TaskResult was returned, or the abort left the call
Done == pc \in {"returned", "raised"}

\* CriticalErrors the current call appended to the history
ErrorsOfCall == SelectSeq(critical_errors, LAMBDA ce : ce.call = calls)

\* escalation decisions taken in the current call, in order
DecisionsOfCall == SelectSeq(events, LAMBDA e : e \in EscalationAction)

\* an exception other than the abort was raised in the try block
Faulted == Has("launch_failed") \/ Has("io_fault")

---------------------------------------------------------------------------
(* Claims about spawn_blocking *)

\* C1: a blocking spawn whose child is still running when the elapsed time
\* exceeds the timeout ends with status TIMEOUT and success = false, and the
\* history holds exactly one CriticalError for it, of severity FATAL, for
\* every escalation action and every callback.
C1_TimeoutOneFatal ==
    (Done /\ Has("timeout") /\ ~Has("io_fault")) =>
        /\ result.status = "timeout"
        /\ result.success = FALSE
        /\ Len(ErrorsOfCall) = 1
        /\ ErrorsOfCall[1].severity = "fatal"

\* C38: a blocking spawn is reported TIMEOUT only if its child had not exited
\* when the timeout decision was taken: a child that exits during the poll
\* sleep in which the elapsed time crosses the timeout is reported by its own
\* exit code, and the tree-kill is not run on it.
C38_TimeoutOnlyIfRunning ==
    /\ (Done /\ result.status = "timeout") => ~Has("timeout_after_exit")
    /\ Has("timeout_after_exit") => ~Has("kill")

\* C39: one call of spawn_blocking makes at most one escalation decision and
\* appends at most one CriticalError to the history, on every path and for
\* every escalation action; the abort raised after a stop decision is not
\* handled as a new critical error of the same task.
C39_OneDecisionPerSpawn ==
    /\ Len(ErrorsOfCall) <= 1
    /\ Len(DecisionsOfCall) <= 1

C3_StopAlwaysAborts ==
    Done =>
        /\ Has("abort") => pc = "raised"
        /\ (~Has("abort") /\ ~Has("raise")) =>
               (pc = "returned" /\ (result.exit_code # 0 => ~result.success))

\* C4: an exception raised while launching or monitoring produces a
\* CriticalError of severity CRITICAL without the classifier being consulted,
\* the error goes through the escalation decision, and the TaskResult built
\* has success = false, status CRITICAL_ERROR and exit_code -1.
C4_ExceptionIsCritical ==
    /\ (Done /\ (Faulted \/ Has("abort"))) =>
          LET n == Len(ErrorsOfCall)
              d == Len(DecisionsOfCall)
          IN  /\ n >= 1
              /\ d >= 1
              /\ ErrorsOfCall[n].severity = "critical"
              /\ ErrorsOfCall[n].message = "exception"
              /\ result.critical_error = ErrorsOfCall[n]
              /\ result.success = FALSE
              /\ result.status = "critical_error"
              /\ result.error_severity = "critical"
              /\ result.exit_code = -1
              /\ pc = "returned" <=>
                     _execute_escalation_action(DecisionsOfCall[d])
    /\ (Done /\ Faulted) =>
          /\ ~Has("classify")
          /\ Len(ErrorsOfCall) = 1
          /\ Len(DecisionsOfCall) = 1
          /\ First({"append"}) < First(EscalationAction)
          /\ First(EscalationAction) < First({"execute"})

C4_Witness ==
    /\ pc = "returned"
    /\ Has("io_fault")
    /\ Has("exited")
    /\ stderr_content = <<"try again">>
    /\ result.status = "critical_error"

C9_TailStoppedBeforeFinalize ==
    /\ (pc # "idle" /\ ~stdout_path) => tail_thread \in {"none", "done"}
    /\ result # NoResult => tail_thread \in {"none", "done"}

\* number of events of the set among the first n events of the call
CountBefore(es, n) == Cardinality({j \in 1..n : events[j] \in es})

\* C20: every critical error handled is appended to the history before the
\* decision callback is invoked or the default action chosen, and before the
\* action is executed; it is in the history also when the callback raises
\* or the pipeline aborts right afterwards.
C20_HistoryBeforeDecision ==
    /\ \A i \in DOMAIN events :
          events[i] \in {"callback", "callback_raised", "execute"}
                          \cup EscalationAction =>
              CountBefore({"append"}, i - 1)
                  = CountBefore({"execute"}, i - 1) + 1
    /\ Len(ErrorsOfCall) = CountBefore({"append"}, Len(events))

\* the callback raised, the default action aborted the pipeline, and the
\* errors are in the history
C20_Witness ==
    /\ pc = "raised"
    /\ Has("callback_raised")
    /\ Len(ErrorsOfCall) >= 1
    /\ critical_errors[Len(critical_errors)].call = calls

\* the call never entered the exception handler
NoExcept == ~Faulted /\ ~Has("abort")

\* C15: when a spawn is over, on any path, neither sink file exists any
\* more, and on the normal and the timeout path the output returned is the
\* whole text the stdout sink held when it was read.
C15_SinksGoneOutputWhole ==
    Done =>
        /\ ~stdout_path
        /\ ~stderr_path
        /\ (Has("read") /\ NoExcept) => result.output = stdout_sink

\* C14: when a spawn is over, on the normal, the timeout and the exception
\* path alike, its process handle is no longer in the spawned-process list.
C14_DeregisteredWhenDone ==
    Done => \A k \in DOMAIN all_spawned_processes :
                all_spawned_processes[k] # calls

\* C24: a CriticalError exists only for severity CRITICAL or FATAL: every
\* TaskResult built by spawn_blocking carries a critical_error exactly when
\* its error_severity is CRITICAL or FATAL, that error has the result's
\* severity, and every entry of the history is CRITICAL or FATAL.
C24_CriticalErrorIffSevere ==
    /\ result # NoResult =>
          /\ (result.critical_error # NoError)
                <=> (result.error_severity \in {"critical", "fatal"})
          /\ result.critical_error # NoError
                => result.critical_error.severity = result.error_severity
    /\ \A k \in DOMAIN critical_errors :
          critical_errors[k].severity \in {"critical", "fatal"}

\* a child ended with a non-zero code that was classified CRITICAL, and the
\* call returned the result carrying the CriticalError stored in the history
C24_Witness ==
    /\ Done
    /\ exc = "none"
    /\ Has("classify")
    /\ result.error_severity = "critical"
    /\ result.critical_error.severity = "critical"
    /\ result.exit_code > 0
    /\ Len(critical_errors) >= 1

---------------------------------------------------------------------------
(* Background tasks: spawn_agent(background=True) (lines 424-442) and the  *)
(* worker thread ClaudeSpawner._execute_task (lines 861-1066).  The        *)
(* output-tailing thread of a background task writes no state of the task  *)
(* and is left to the blocking specification.                              *)

Tasks == 1..MaxTasks

\* exit codes of the child of a background task: _execute_task tells only 0
\* from the rest (line 1018)
BgExitCodes == {0, 1}

\* The program has not ended: worker threads are daemon threads and stop with
\* the interpreter once the exit handler has returned.
Alive == handler.pc # "done"

\* TaskResult of a background task (lines 1009-1016, 1021-1028, 1052-1059);
\* error tells the texts apart: "timed out", "exception", the child's
\* "stderr", and "Task still running" (line 115)
BgResult(success, exit_code, status, error) ==
    [success |-> success, exit_code |-> exit_code, status |-> status,
     error |-> error, error_severity |-> "none", critical_error |-> NoError]

\* lines 424-442: the task is created PENDING, its thread is started and it
\* is registered; ids come from _task_counter
SpawnAgent ==
    /\ Alive
    /\ handler.pc = "idle"
    /\ waiter.pc = "idle"
    /\ task_counter < MaxTasks
    /\ task_counter' = task_counter + 1
    /\ task' = [task EXCEPT ![task_counter + 1] =
                    [NoTask EXCEPT !.pc = "start"]]
    /\ UNCHANGED <<supervisorVars, unitVars, clientVars,
                   all_spawned_processes, critical_errors,
                   blockingVars, handler>>

\* lines 877-896: the status becomes RUNNING and the sinks are created
WorkerStart(t) ==
    /\ Alive
    /\ task[t].pc = "start"
    /\ task' = [task EXCEPT ![t].status = "running", ![t].pc = "popen"]
    /\ UNCHANGED <<supervisorVars, unitVars, clientVars,
                   task_counter, all_spawned_processes,
                   critical_errors, blockingVars, handler>>

\* lines 877-890: mkdir and open are outside the try block: when they raise,
\* the thread ends with the task RUNNING and no result
WorkerDiesBeforeTry(t) ==
    /\ Alive
    /\ task[t].pc = "start"
    /\ task' = [task EXCEPT ![t].status = "running", ![t].pc = "dead"]
    /\ UNCHANGED <<supervisorVars, unitVars, clientVars,
                   task_counter, all_spawned_processes,
                   critical_errors, blockingVars, handler>>

\* lines 900-907: Popen succeeds; the handle is not registered yet
WorkerPopenStarts(t) ==
    /\ Alive
    /\ task[t].pc = "popen"
    /\ task' = [task EXCEPT ![t].process = [state |-> "running",
                                            returncode |-> 0],
                            ![t].pc = "append"]
    /\ UNCHANGED <<supervisorVars, unitVars, clientVars,
                   task_counter, all_spawned_processes,
                   critical_errors, blockingVars, handler>>

\* line 900: Popen raises
WorkerPopenRaises(t) ==
    /\ Alive
    /\ task[t].pc = "popen"
    /\ task' = [task EXCEPT ![t].pc = "except"]
    /\ UNCHANGED <<supervisorVars, unitVars, clientVars,
                   task_counter, all_spawned_processes,
                   critical_errors, blockingVars, handler>>

\* lines 909-910: the handle is appended to the registry
WorkerAppend(t) ==
    /\ Alive
    /\ task[t].pc = "append"
    /\ all_spawned_processes' = Append(all_spawned_processes, t)
    /\ task' = [task EXCEPT ![t].pc = "poll"]
    /\ UNCHANGED <<supervisorVars, unitVars, clientVars, task_counter, critical_errors,
                   blockingVars, handler>>

\* the child of a background task ends on its own
BgProcessExits(t) ==
    /\ Alive
    /\ task[t].process.state = "running"
    /\ \E code \in BgExitCodes :
          task' = [task EXCEPT ![t].process = [state |-> "exited",
                                              returncode |-> code]]
    /\ UNCHANGED <<supervisorVars, unitVars, clientVars,
                   task_counter, all_spawned_processes,
                   critical_errors, blockingVars, handler>>

\* line 941: the loop condition
WorkerPoll(t) ==
    /\ Alive
    /\ task[t].pc = "poll"
    /\ task' = [task EXCEPT ![t].pc = IF PollIsNone(task[t].process)
                                      THEN "sleep" ELSE "finish"]
    /\ UNCHANGED <<supervisorVars, unitVars, clientVars,
                   task_counter, all_spawned_processes,
                   critical_errors, blockingVars, handler>>

\* lines 942-950: sleep, then elapsed <= task.timeout
WorkerSleepWithinTimeout(t) ==
    /\ Alive
    /\ task[t].pc = "sleep"
    /\ task' = [task EXCEPT ![t].pc = "poll"]
    /\ UNCHANGED <<supervisorVars, unitVars, clientVars,
                   task_counter, all_spawned_processes,
                   critical_errors, blockingVars, handler>>

\* lines 942-954: sleep, then elapsed > task.timeout: tree-kill, the status
\* becomes TIMEOUT, the loop is left
WorkerSleepPastTimeout(t) ==
    /\ Alive
    /\ task[t].pc = "sleep"
    /\ task' = [task EXCEPT ![t].process = _kill_process_tree(@),
                            ![t].status = "timeout",
                            ![t].pc = "finish"]
    /\ UNCHANGED <<supervisorVars, unitVars, clientVars,
                   task_counter, all_spawned_processes,
                   critical_errors, blockingVars, handler>>

\* lines 956-1005: tailing is stopped, the handle leaves the registry, the
\* sink handles are closed, the sinks are read and removed
WorkerFinish(t) ==
    /\ Alive
    /\ task[t].pc = "finish"
    /\ all_spawned_processes' = Remove(all_spawned_processes, t)
    /\ task' = [task EXCEPT ![t].pc = "build"]
    /\ UNCHANGED <<supervisorVars, unitVars, clientVars, task_counter, critical_errors,
                   blockingVars, handler>>

\* lines 1008, 1017-1019: unless the timeout was recorded, the exit code
\* decides the status, which is written before the result
WorkerSetStatus(t) ==
    /\ Alive
    /\ task[t].pc = "build"
    /\ task[t].status # "timeout"
    /\ task' = [task EXCEPT
            ![t].status = IF task[t].process.returncode = 0
                          THEN "completed" ELSE "failed",
            ![t].pc = "store"]
    /\ UNCHANGED <<supervisorVars, unitVars, clientVars, task_counter,
                   all_spawned_processes, critical_errors, blockingVars,
                   handler>>

\* lines 1009-1016 and 1021-1028: the result is stored in task._result
WorkerBuild(t) ==
    /\ Alive
    /\ \/ task[t].pc = "build" /\ task[t].status = "timeout"
       \/ task[t].pc = "store"
    /\ task' = [task EXCEPT
            ![t].result =
                IF task[t].status = "timeout"
                THEN BgResult(FALSE, -1, "timeout", "timed out")
                ELSE BgResult(task[t].process.returncode = 0,
                              task[t].process.returncode, task[t].status,
                              "stderr"),
            ![t].pc = "log"]
    /\ UNCHANGED <<supervisorVars, unitVars, clientVars, task_counter,
                   all_spawned_processes, critical_errors, blockingVars,
                   handler>>

\* line 1030: the completion is logged, still inside the try block
WorkerLog(t) ==
    /\ Alive
    /\ task[t].pc = "log"
    /\ task' = [task EXCEPT ![t].pc = "callback"]
    /\ UNCHANGED <<supervisorVars, unitVars, clientVars,
                   task_counter, all_spawned_processes,
                   critical_errors, blockingVars, handler>>

\* An exception raised by a statement of the try block other than Popen:
\* the logger's unguarded writes while the child runs (lines 947, 951) and
\* after the result is stored (line 1030).  Caught at line 1032.
WorkerFaultSites == {"sleep", "log"}

WorkerRaises(t) ==
    /\ Alive
    /\ task[t].pc \in WorkerFaultSites
    /\ task' = [task EXCEPT ![t].pc = "except"]
    /\ UNCHANGED <<supervisorVars, unitVars, clientVars,
                   task_counter, all_spawned_processes,
                   critical_errors, blockingVars, handler>>

\* lines 1032-1059: tailing is stopped, the tree-kill, the sinks are removed,
\* then status and result are overwritten with FAILED
WorkerExcept(t) ==
    /\ Alive
    /\ task[t].pc = "except"
    /\ task' = [task EXCEPT ![t].process = _kill_process_tree(@),
                            ![t].status = "failed",
                            ![t].result = BgResult(FALSE, -1, "failed",
                                                   "exception"),
                            ![t].pc = "callback"]
    /\ UNCHANGED <<supervisorVars, unitVars, clientVars,
                   task_counter, all_spawned_processes,
                   critical_errors, blockingVars, handler>>

\* what on_complete can be or do: not given, return, raise an Exception
CallbackOutcomes == {"unset", "returned", "raised"}

WorkerCallbackEscapes(t) ==
    /\ Alive
    /\ task[t].pc = "callback"
    /\ \E outcome \in CallbackOutcomes :
          task' = [task EXCEPT
                ![t].on_complete = IF outcome = "unset" THEN @ ELSE outcome,
                ![t].pc = IF outcome = "raised" THEN "dead" ELSE "done"]
    /\ UNCHANGED <<supervisorVars, unitVars, clientVars, task_counter,
                   all_spawned_processes, critical_errors, blockingVars,
                   handler>>

\* lines 1061-1066: on_complete is called if it was given and the result is
\* set; what it raises is logged and swallowed.  (on_complete is an argument
\* read here only, so its choice is made here.)
WorkerCallback(t) ==
    /\ Alive
    /\ task[t].pc = "callback"
    /\ \E outcome \in CallbackOutcomes :
          task' = [task EXCEPT
                ![t].on_complete =
                    IF outcome = "unset" \/ task[t].result = NoResult
                    THEN @ ELSE outcome,
                ![t].pc = "done"]
    /\ UNCHANGED <<supervisorVars, unitVars, clientVars, task_counter,
                   all_spawned_processes, critical_errors, blockingVars,
                   handler>>

---------------------------------------------------------------------------
(* The exit handler: ClaudeSpawner._cleanup_all_processes (lines 1124-1142), *)
(* registered with atexit (line 193).  It runs on the main thread while the  *)
(* daemon worker threads keep running; neither side takes a lock.            *)

HandlerDone == [pc |-> "done", i |-> 0, process |-> 0]

\* lines 1126-1131: nothing to do for an empty registry; else the for loop
\* starts at the first element
CleanupStarts ==
    /\ handler.pc = "idle"
    /\ handler' = IF all_spawned_processes = <<>>
                  THEN HandlerDone
                  ELSE [pc |-> "iterate", i |-> 1, process |-> 0]
    /\ UNCHANGED <<supervisorVars, unitVars, clientVars,
                   task_counter, all_spawned_processes,
                   critical_errors, blockingVars, task>>

\* lines 1131-1134: the list iterator yields the element at its index, if
\* the list is still that long, and the handle is polled
CleanupNext ==
    /\ handler.pc = "iterate"
    /\ handler' =
          IF handler.i > Len(all_spawned_processes)
          THEN HandlerDone
          ELSE IF PollIsNone(task[all_spawned_processes[handler.i]].process)
               THEN [pc |-> "kill", i |-> handler.i + 1,
                     process |-> all_spawned_processes[handler.i]]
               ELSE [handler EXCEPT !.i = @ + 1]
    /\ UNCHANGED <<supervisorVars, unitVars, clientVars,
                   task_counter, all_spawned_processes,
                   critical_errors, blockingVars, task>>

\* lines 1136-1137: the tree-kill of the handle just polled
CleanupKill ==
    /\ handler.pc = "kill"
    /\ task' = [task EXCEPT ![handler.process].process = _kill_process_tree(@)]
    /\ handler' = [handler EXCEPT !.pc = "iterate", !.process = 0]
    /\ UNCHANGED <<supervisorVars, unitVars, clientVars,
                   task_counter, all_spawned_processes,
                   critical_errors, blockingVars>>

---------------------------------------------------------------------------
(* Background tasks, alone and racing with the exit handler *)

InitBackground ==
    /\ Init
    /\ on_critical_error = "none"
    /\ default_escalation = "stop_pipeline"

\* the caller creating tasks, the worker threads and the children
NextBackground ==
    \/ SpawnAgent
    \/ \E t \in Tasks :
          \/ WorkerStart(t)
          \/ WorkerDiesBeforeTry(t)
          \/ WorkerPopenStarts(t)
          \/ WorkerPopenRaises(t)
          \/ WorkerAppend(t)
          \/ BgProcessExits(t)
          \/ WorkerPoll(t)
          \/ WorkerSleepWithinTimeout(t)
          \/ WorkerSleepPastTimeout(t)
          \/ WorkerFinish(t)
          \/ WorkerSetStatus(t)
          \/ WorkerBuild(t)
          \/ WorkerLog(t)
          \/ WorkerRaises(t)
          \/ WorkerExcept(t)
          \/ WorkerCallback(t)

SpecBackground == InitBackground /\ [][NextBackground]_vars

\* the same, with the program ending at any moment
NextExit ==
    \/ NextBackground
    \/ CleanupStarts
    \/ CleanupNext
    \/ CleanupKill

SpecExit == InitBackground /\ [][NextExit]_vars

---------------------------------------------------------------------------
(* The caller's view: BackgroundTask.is_done and get_result (lines 89-119) *)
(* and ClaudeSpawner.wait_all (lines 1151-1156).  The caller is the one    *)
(* thread that also calls spawn_agent.                                     *)

\* lines 89-91
is_done(tk) == tk.status \in {"completed", "failed", "timeout"}

\* lines 111-118: the TaskResult made up for a task without a result
StillRunning(tk) == BgResult(FALSE, -1, tk.status, "Task still running")

get_result_stored(tk) == tk.result

\* lines 107-118: get_result once its wait loop is over (block=False: at
\* once)
get_result(tk) ==
    IF tk.result # NoResult THEN tk.result ELSE StillRunning(tk)

\* lines 1153-1154: wait_all starts to iterate over _active_tasks; with no
\* task registered it returns the empty map.  One call is followed.
WaitAll ==
    /\ waiter.pc = "idle"
    /\ waiter' = IF task_counter = 0
                 THEN [pc |-> "returned", i |-> 0, results |-> <<>>]
                 ELSE [pc |-> "poll", i |-> 1, results |-> <<>>]
    /\ UNCHANGED <<supervisorVars, unitVars, returned, killer, backgroundVars,
                   all_spawned_processes, critical_errors, blockingVars>>

\* lines 103-105: get_result(block=True) leaves its poll loop when is_done()
\* is seen true
WaitObserve ==
    /\ waiter.pc = "poll"
    /\ is_done(task[waiter.i])
    /\ waiter' = [waiter EXCEPT !.pc = "read"]
    /\ UNCHANGED <<supervisorVars, unitVars, returned, killer, backgroundVars,
                   all_spawned_processes, critical_errors, blockingVars>>

\* lines 107-118 and 1155-1156: what get_result returns is stored under the
\* task's id; after the last task wait_all returns the map
WaitRead ==
    /\ waiter.pc = "read"
    /\ waiter' = [pc |-> IF waiter.i = task_counter THEN "returned"
                         ELSE "poll",
                  i |-> waiter.i + 1,
                  results |-> Append(waiter.results,
                                     get_result(task[waiter.i]))]
    /\ UNCHANGED <<supervisorVars, unitVars, returned, killer, backgroundVars,
                   all_spawned_processes, critical_errors, blockingVars>>

\* lines 93-119 with block=False, on the handle of any task created
GetResultNow ==
    /\ \E t \in 1..task_counter :
          returned' = [task |-> t, value |-> get_result(task[t])]
    /\ UNCHANGED <<supervisorVars, unitVars, waiter, killer, backgroundVars,
                   all_spawned_processes, critical_errors, blockingVars>>

\* the caller drops the TaskResult it was given
DropResult ==
    /\ returned # NoReturn
    /\ returned' = NoReturn
    /\ UNCHANGED <<supervisorVars, unitVars, waiter, killer, backgroundVars,
                   all_spawned_processes, critical_errors, blockingVars>>

\* every step a worker thread can take
WorkerStep(t) ==
    \/ WorkerStart(t)
    \/ WorkerDiesBeforeTry(t)
    \/ WorkerPopenStarts(t)
    \/ WorkerPopenRaises(t)
    \/ WorkerAppend(t)
    \/ WorkerPoll(t)
    \/ WorkerSleepWithinTimeout(t)
    \/ WorkerSleepPastTimeout(t)
    \/ WorkerFinish(t)
    \/ WorkerSetStatus(t)
    \/ WorkerBuild(t)
    \/ WorkerLog(t)
    \/ WorkerRaises(t)
    \/ WorkerExcept(t)
    \/ WorkerCallback(t)

\* background tasks and one caller of wait_all
NextWait ==
    \/ NextBackground
    \/ WaitAll
    \/ WaitObserve
    \/ WaitRead

\* Worker threads and the caller are scheduled fairly, and every child ends
\* unless it is killed first.
FairWait ==
    /\ \A t \in Tasks : WF_vars(WorkerStep(t))
    /\ \A t \in Tasks : WF_vars(BgProcessExits(t))
    /\ WF_vars(WaitObserve \/ WaitRead)

SpecWait == InitBackground /\ [][NextWait]_vars /\ FairWait

\* Background tasks and a caller that polls with get_result(block=False).
\* A returned value is held for the one state in which it is examined: the
\* workers step while none is held, which leaves out no call of get_result.
NextPoll ==
    \/ returned = NoReturn /\ NextBackground
    \/ GetResultNow
    \/ DropResult

SpecPoll == InitBackground /\ [][NextPoll]_vars

---------------------------------------------------------------------------
(* The tree-kill step by step: ClaudeSpawner._kill_process_tree (lines     *)
(* 1090-1122), called MaxKills times on one handle.  Every system call can *)
(* succeed or fail with "no such process" or "permission denied", whatever *)
(* the state of the process; SIGTERM may be ignored by a running process.  *)

SIGKILL == 9

SignalErrors == {"ProcessLookupError", "PermissionError"}
Outcomes == {"ok"} \cup SignalErrors

\* does `except classes` catch e: both errors are subclasses of OSError
Catches(classes, e) ==
    \/ e \in classes
    \/ "OSError" \in classes /\ e \in SignalErrors

\* the except clauses of lines 1107, 1110, 1116 and 1121
InnerCaught == {"ProcessLookupError"}
OuterCaught == {"ProcessLookupError", "PermissionError", "OSError"}
FallbackCaughtLookupOnly == {"ProcessLookupError"}
FallbackCaught == {"ProcessLookupError", "OSError"}

\* handles the routine is called on: none, a running child, an ended one
KillTargets == {NoProcess,
                [state |-> "running", returncode |-> 0],
                [state |-> "exited", returncode |-> 0],
                [state |-> "exited", returncode |-> 1]}

\* a signal that was delivered: SIGKILL ends a running process, SIGTERM
\* ends it unless `ignored`
Signalled(p, sig, ignored) ==
    IF p.state = "running" /\ ~(sig = SIGTERM /\ ignored)
    THEN [state |-> "killed", returncode |-> -sig]
    ELSE p

KillFrame ==
    UNCHANGED <<supervisorVars, unitVars, waiter, returned, backgroundVars,
                all_spawned_processes, critical_errors, blockingVars>>

\* where the routine goes when a step inside the outer try raises e
AfterOuterRaise(e) ==
    IF Catches(OuterCaught, e)
    THEN [killer EXCEPT !.pc = "kill_term", !.errors = Append(@, e)]
    ELSE [killer EXCEPT !.pc = "raised", !.raised = e]

\* where it goes when a step of the fallback (or process.kill()) raises e
AfterFallbackRaise(e) ==
    IF Catches(FallbackCaught, e)
    THEN [killer EXCEPT !.pc = "returned", !.errors = Append(@, e)]
    ELSE [killer EXCEPT !.pc = "raised", !.raised = e]

\* lines 1092-1098: a call; no handle: return at once; else the branch for
\* the platform is entered
KillCall ==
    /\ killer.pc \in {"idle", "returned"}
    /\ killer.n < MaxKills
    /\ \E p \in KillTargets, nt \in BOOLEAN :
          LET target == IF killer.n = 0 THEN p ELSE killer.process
          IN  killer' = [pc |-> IF target.state = "none" THEN "returned"
                                ELSE IF nt THEN "nt_kill" ELSE "getpgid",
                         n |-> killer.n + 1,
                         process |-> target,
                         raised |-> "none",
                         signals |-> <<>>,
                         errors |-> <<>>]
    /\ KillFrame

\* line 1100: os.getpgid(pid)
KillGetpgid ==
    /\ killer.pc = "getpgid"
    /\ \E o \in Outcomes :
          killer' = IF o = "ok" THEN [killer EXCEPT !.pc = "killpg_term"]
                    ELSE AfterOuterRaise(o)
    /\ KillFrame

\* line 1101: os.killpg(pgid, SIGTERM)
KillKillpgTerm ==
    /\ killer.pc = "killpg_term"
    /\ \E o \in Outcomes, ignored \in BOOLEAN :
          killer' = IF o = "ok"
                    THEN [killer EXCEPT
                            !.pc = "poll",
                            !.process = Signalled(@, SIGTERM, ignored),
                            !.signals = Append(@, SIGTERM)]
                    ELSE AfterOuterRaise(o)
    /\ KillFrame

\* lines 1102-1104 and 1113-1114: sleep, then process.poll() is None
KillPoll ==
    /\ killer.pc \in {"poll", "fallback_poll"}
    /\ killer' = [killer EXCEPT !.pc =
                    IF ~PollIsNone(killer.process) THEN "returned"
                    ELSE IF killer.pc = "poll" THEN "killpg_kill"
                    ELSE "kill_kill"]
    /\ KillFrame

\* lines 1105-1108: os.killpg(pgid, SIGKILL); "no such process" is passed
\* over, any other error goes to the outer except clause
KillKillpgKill ==
    /\ killer.pc = "killpg_kill"
    /\ \E o \in Outcomes :
          killer' = IF o = "ok"
                    THEN [killer EXCEPT
                            !.pc = "returned",
                            !.process = Signalled(@, SIGKILL, FALSE),
                            !.signals = Append(@, SIGKILL)]
                    ELSE IF Catches(InnerCaught, o)
                    THEN [killer EXCEPT !.pc = "returned",
                                        !.errors = Append(@, o)]
                    ELSE AfterOuterRaise(o)
    /\ KillFrame

\* lines 1111-1112: the fallback, os.kill(pid, SIGTERM)
KillKillTerm ==
    /\ killer.pc = "kill_term"
    /\ \E o \in Outcomes, ignored \in BOOLEAN :
          killer' = IF o = "ok"
                    THEN [killer EXCEPT
                            !.pc = "fallback_poll",
                            !.process = Signalled(@, SIGTERM, ignored),
                            !.signals = Append(@, SIGTERM)]
                    ELSE AfterFallbackRaise(o)
    /\ KillFrame

\* lines 1115 and 1119-1122: os.kill(pid, SIGKILL), or process.kill() on
\* the platform without process groups
KillKillKill ==
    /\ killer.pc \in {"kill_kill", "nt_kill"}
    /\ \E o \in Outcomes :
          killer' = IF o = "ok"
                    THEN [killer EXCEPT
                            !.pc = "returned",
                            !.process = Signalled(@, SIGKILL, FALSE),
                            !.signals = Append(@, SIGKILL)]
                    ELSE AfterFallbackRaise(o)
    /\ KillFrame

NextKill ==
    \/ KillCall
    \/ KillGetpgid
    \/ KillKillpgTerm
    \/ KillPoll
    \/ KillKillpgKill
    \/ KillKillTerm
    \/ KillKillKill

SpecKill == Init /\ [][NextKill]_vars

---------------------------------------------------------------------------
(* Claims about background tasks and the exit handler *)

Terminal == {"completed", "failed", "timeout", "critical_error"}

\* C6: after the exit handler has run no child of the supervisor is alive:
\* while the handler runs every child that was started and has not ended is
\* in the registry, and the handler tree-kills every entry still alive,
\* under every interleaving with spawns and completions in worker threads.
C6_NoChildSurvivesExit ==
    /\ handler.pc \in {"iterate", "kill"} =>
          \A t \in Tasks :
              task[t].process.state = "running" =>
                  \E k \in DOMAIN all_spawned_processes :
                      all_spawned_processes[k] = t
    /\ handler.pc = "done" =>
          \A t \in Tasks : task[t].process.state # "running"

\* C7: the status of a background task goes PENDING -> RUNNING -> one
\* terminal status: a terminal status is entered from RUNNING only, and once
\* held it never changes, also when the worker raises after the timeout was
\* recorded.
C7_StatusLifecycle ==
    [][\A t \in Tasks :
          /\ task[t].status \in Terminal => task'[t].status = task[t].status
          /\ (task'[t].status \in Terminal /\ task[t].status \notin Terminal)
                => task[t].status = "running"
          /\ task[t].status = "pending" =>
                task'[t].status \in {"pending", "running"}]_vars

\* C10: the result field of a background task is written exactly once, by
\* the worker that owns the task, and never changes afterwards.
C10_ResultWrittenOnce ==
    [][\A t \in Tasks :
          /\ task[t].result # NoResult => task'[t].result = task[t].result
          /\ task'[t].result # task[t].result =>
                (task[t].pc # task'[t].pc /\ task[t].pc \notin {"unspawned"})
      ]_vars

\* The background worker builds its result only with the child ended or
\* killed (the ordering C8 states for spawn_blocking).
BgResultAfterExitOrKill ==
    \A t \in Tasks :
        task[t].result # NoResult => task[t].process.state # "running"

\* C17: a completion callback that raises does not end the worker with an
\* exception and leaves the task's terminal status and stored result as a
\* returning callback does; the callback is invoked at most once per task,
\* and only after the result was stored.
C17_CallbackSwallowed ==
    [][\A t \in Tasks :
          task'[t].on_complete # task[t].on_complete =>
              /\ task[t].on_complete = "none"
              /\ task[t].result # NoResult
              /\ task[t].status \in Terminal
              /\ task'[t].result = task[t].result
              /\ task'[t].status = task[t].status
              /\ task'[t].pc = "done"
      ]_vars

\* the callback of a task that completed has raised and the worker is over
C17_Witness ==
    \E t \in Tasks :
        /\ task[t].on_complete = "raised"
        /\ task[t].pc = "done"
        /\ task[t].status = "completed"
        /\ task[t].result.success

\* What spawn_blocking makes of the same end of the child: status and
\* severity of its TaskResult and the CriticalErrors it records (lines
\* 569-594, 657-712, 734-756), for a child that wrote nothing to stderr.
BlockingOutcome(r) ==
    IF r.error = "timed out"
    THEN [status |-> TimeoutResult(NoError).status,
          severity |-> TimeoutResult(NoError).error_severity, recorded |-> 1]
    ELSE IF r.error = "exception"
    THEN [status |-> ExceptionResult(NoError).status,
          severity |-> ExceptionSeverity, recorded |-> 1]
    ELSE LET severity ==
                 IF ShouldClassify(r.exit_code)
                 THEN _classify_error_severity(r.exit_code, <<>>, "failed")
                 ELSE "none"
         IN  IF IsEscalated(severity)
             THEN [status |-> CriticalExitResult(r.exit_code, severity,
                                                 NoError).status,
                   severity |-> severity, recorded |-> 1]
             ELSE [status |-> PlainResult(r.exit_code, severity).status,
                   severity |-> severity, recorded |-> 0]

\* C18: a background task runs the state machine of the blocking spawn: for
\* the same end of the child (exit 0, non-zero exit, timeout, failed launch)
\* it ends in the same status, with the same severity and the same
\* CriticalError in the history as spawn_blocking.
C18_BackgroundAsBlocking ==
    \A t \in Tasks :
        (task[t].pc = "done" /\ task[t].result # NoResult) =>
            LET r == task[t].result
                b == BlockingOutcome(r)
            IN  /\ r.status = b.status
                /\ r.error_severity = b.severity
                /\ Len(critical_errors) >= b.recorded

\* C19: accesses to the spawned-process list exclude each other: no worker
\* appends to it or removes from it while the exit handler iterates over it.
C19_RegistryMutex ==
    [][handler.pc \in {"iterate", "kill"} =>
          all_spawned_processes' = all_spawned_processes]_vars

---------------------------------------------------------------------------
(* Claims about the caller's view of background tasks *)

\* C11: get_result(block=True) returns only once the task is terminal and
\* returns the TaskResult its worker wrote, never the made-up "Task still
\* running" one: whenever is_done() is true the result is already set.
C11_BlockingGetResult ==
    /\ \A t \in Tasks : is_done(task[t]) => task[t].result # NoResult
    /\ \A k \in DOMAIN waiter.results :
          waiter.results[k].error # "Task still running"

\* C12: with fair scheduling and children that end or time out, wait_all
\* eventually returns with one entry for every registered task, also when
\* the worker of a task failed before the launch.  (That each entry is the
\* worker's terminal TaskResult is the second conjunct of C11.)
C12_WaitAllReturns ==
    (waiter.pc = "poll") ~>
        (waiter.pc = "returned" /\ Len(waiter.results) = task_counter)

\* C13: get_result(block=False) returns at once: for a task without a result
\* the made-up TaskResult (success false, "Task still running", exit code
\* -1, the current status), else the stored one; the task is left as it is.
C13_NonBlockingGetResult ==
    [][(returned' # returned /\ returned' # NoReturn) =>
          LET tk == task[returned'.task]
          IN  /\ task' = task
              /\ tk.result = NoResult =>
                    returned'.value =
                        [success |-> FALSE, exit_code |-> -1,
                         status |-> tk.status,
                         error |-> "Task still running",
                         error_severity |-> "none",
                         critical_error |-> NoError]
              /\ tk.result # NoResult => returned'.value = tk.result
      ]_vars

\* the worker died before its try block and the caller polled the task
C13_Witness ==
    /\ returned.task \in Tasks
    /\ task[returned.task].pc = "dead"
    /\ returned.value.error = "Task still running"
    /\ returned.value.status = "running"

---------------------------------------------------------------------------
(* Claims about the tree-kill *)

\* C16: the tree-kill is safe on a process that has ended or on no process,
\* and when called again: it raises nothing whichever signal step fails
\* with "no such process" or "permission denied", and it changes nothing of
\* the supervisor's bookkeeping (registry, history, task status).
C16_KillIdempotent ==
    /\ killer.raised = "none"
    /\ killer.pc # "raised"
    /\ all_spawned_processes = <<>>
    /\ critical_errors = <<>>
    /\ \A t \in Tasks : task[t] = NoTask

\* a second call on a handle whose process has ended has returned, after
\* both the group step and the fallback met "permission denied"
C16_Witness ==
    /\ killer.n = 2
    /\ killer.pc = "returned"
    /\ killer.process.state = "exited"
    /\ killer.errors = <<"PermissionError", "PermissionError">>


---------------------------------------------------------------------------
(* The escalation routines called one at a time on a supervisor:           *)
(* _handle_critical_error (lines 268-307), _execute_escalation_action      *)
(* (lines 309-349) and get_critical_errors (lines 351-353), with a caller  *)
(* that modifies the list it was handed.                                   *)

\* critical errors handled in one run
MaxErrors == 2

\* The default_escalation argument of the constructor: an action, or left out
DefaultArguments == EscalationAction \cup {"omitted"}

\* __init__, lines 151 and 174
DefaultEscalation(argument) ==
    IF argument = "omitted" THEN "stop_pipeline" ELSE argument

InitEscalation ==
    /\ InitSupervisor
    /\ configured_default \in DefaultArguments
    /\ default_escalation = DefaultEscalation(configured_default)
    /\ IdleUnits

\* What the environment chooses for one call: the callback's answer, when
\* there is a callback to ask
HandlerAnswers ==
    IF on_critical_error = "set"
    THEN CallbackAnswers \cup {NotAnAction}
    ELSE {"none"}

\* The exception raised inside the try of lines 297-300, and the exception
\* that leaves _handle_critical_error: the handler of line 301 takes every
\* Exception.
RaisedInTry(answer) ==
    CASE answer = "raise" -> "Exception"
      [] answer = NotAnAction -> "AttributeError"
      [] OTHER -> "none"

ExceptException == {"Exception", "AttributeError"}

HandlerRaises(answer) ==
    IF on_critical_error = "set" /\ RaisedInTry(answer) \notin ExceptException
    THEN RaisedInTry(answer)
    ELSE "none"

\* _handle_critical_error(error): line 293 appends, lines 296-307 decide
HandleCriticalError ==
    /\ Len(critical_errors) < MaxErrors
    /\ \E severity \in {"critical", "fatal"}, answer \in HandlerAnswers :
          LET error == [CriticalError(severity, "error") EXCEPT
                            !.call = Len(critical_errors) + 1]
          IN  /\ critical_errors' = Append(critical_errors, error)
              /\ decision' = [error |-> error, answer |-> answer,
                              action |-> Decision(answer),
                              raised |-> HandlerRaises(answer)]
    /\ UNCHANGED <<supervisorVars, clientVars, backgroundVars, blockingVars,
                   all_spawned_processes, configured_default, executed,
                   errors_copy, classification, checker, retrier, issuer, handles>>

\* TaskResults and task ids handed to _execute_escalation_action
EscalatedResults ==
    {TimeoutResult(CriticalError("fatal", "timeout")),
     CriticalExitResult(1, "critical", CriticalError("critical", "exit"))}

\* _execute_escalation_action(action, task_result, task_id)
ExecuteEscalationAction ==
    /\ \E action \in EscalationAction \cup {NotAnAction},
          task_result \in EscalatedResults, task_id \in {"agent_1", "agent_2"} :
          executed' = [action |-> action, task_result |-> task_result,
                       task_id |-> task_id,
                       continue |-> _execute_escalation_action(action)]
    /\ UNCHANGED <<supervisorVars, clientVars, backgroundVars, blockingVars,
                   all_spawned_processes, critical_errors, configured_default,
                   decision, errors_copy, classification, checker, retrier, issuer, handles>>

\* get_critical_errors(), line 353: a new list with the entries of the
\* history at this moment (`taken`: how many).  The other definition hands
\* out the history list itself.
get_critical_errors_alias ==
    [list |-> "history", items |-> <<>>, taken |-> Len(critical_errors)]

get_critical_errors ==
    [list |-> "copy", items |-> critical_errors,
     taken |-> Len(critical_errors)]

GetCriticalErrors ==
    /\ errors_copy' = get_critical_errors
    /\ UNCHANGED <<supervisorVars, clientVars, backgroundVars, blockingVars,
                   all_spawned_processes, critical_errors, configured_default,
                   decision, executed, classification, checker, retrier, issuer, handles>>

\* What the caller does to a list it holds
ListOperations == {"clear", "pop", "append", "reverse", "replace"}

Foreign == [severity |-> "recoverable", message |-> "foreign", call |-> 0]

Reverse(l) == [k \in 1..Len(l) |-> l[Len(l) + 1 - k]]

Modified(operation, l) ==
    CASE operation = "clear" -> <<>>
      [] operation = "pop" -> IF l = <<>> THEN l ELSE SubSeq(l, 1, Len(l) - 1)
      [] operation = "append" ->
            IF Len(l) >= MaxErrors THEN l ELSE Append(l, Foreign)
      [] operation = "reverse" -> Reverse(l)
      [] operation = "replace" ->
            IF l = <<>> THEN l ELSE [l EXCEPT ![1] = Foreign]

\* The caller modifies the list it got: the list object is either its own
\* copy or the supervisor's _critical_errors.
CallerModifies ==
    /\ errors_copy.list # "none"
    /\ \E operation \in ListOperations :
          IF errors_copy.list = "history"
          THEN /\ critical_errors' = Modified(operation, critical_errors)
               /\ critical_errors' # critical_errors
               /\ errors_copy' = [errors_copy EXCEPT !.taken = 0]
          ELSE /\ errors_copy' = [errors_copy EXCEPT
                                      !.items = Modified(operation, @)]
               /\ errors_copy' # errors_copy
               /\ UNCHANGED critical_errors
    /\ UNCHANGED <<supervisorVars, clientVars, backgroundVars, blockingVars,
                   all_spawned_processes, configured_default, decision,
                   executed, classification, checker, retrier, issuer, handles>>

\* errors handled one after another, with a caller reading and modifying
\* the history between them
NextEscalation ==
    \/ HandleCriticalError
    \/ GetCriticalErrors
    \/ CallerModifies

SpecEscalation == InitEscalation /\ [][NextEscalation]_vars

\* escalation actions executed one after another
NextExecute == ExecuteEscalationAction

SpecExecute == InitEscalation /\ [][NextExecute]_vars

IsPrefix(a, b) == Len(a) <= Len(b) /\ SubSeq(b, 1, Len(a)) = a

\* C21: the critical-error history is append-only: in every step its length
\* does not decrease and the entries it had keep their position and content;
\* it changes only when an error is handled, so a caller modifying the list
\* that get_critical_errors returned leaves the history as it was.
C21_HistoryAppendOnly ==
    [][/\ IsPrefix(critical_errors, critical_errors')
       /\ decision' = decision => critical_errors' = critical_errors]_vars

\* a caller emptied the copy it took of a history of two errors, and the
\* history went on growing
C21_Witness ==
    /\ errors_copy.list = "copy"
    /\ errors_copy.taken >= 2
    /\ errors_copy.items = <<>>
    /\ Len(critical_errors) = MaxErrors

\* C22: the escalation decision is the callback's action when a callback is
\* configured and returns one; it is the configured default action when no
\* callback is configured or the callback raises, and no exception of the
\* callback leaves the decision routine; the default action is STOP_PIPELINE
\* unless the constructor was given another.
C22_DecisionOrDefault ==
    /\ default_escalation = IF configured_default = "omitted"
                             THEN "stop_pipeline"
                             ELSE configured_default
    /\ decision # NoDecision =>
          /\ decision.raised = "none"
          /\ (on_critical_error = "set" /\ decision.answer \in EscalationAction)
                => decision.action = decision.answer
          /\ (on_critical_error = "none" \/ decision.answer = "raise")
                => decision.action = default_escalation

\* a callback raised on a supervisor built without a default action, and the
\* decision was STOP_PIPELINE
C22_Witness ==
    /\ on_critical_error = "set"
    /\ configured_default = "omitted"
    /\ decision.answer = "raise"
    /\ decision.action = "stop_pipeline"

\* C23: executing an escalation action answers continue exactly for CONTINUE
\* and RETRY, and stop for STOP_PIPELINE, ASK_HUMAN and any value that is
\* none of the four actions, whatever result and task id are passed.
C23_ExecutePure ==
    executed # NoExecuted =>
        executed.continue = (executed.action \in {"continue", "retry"})

\* a value that is no action was executed and the answer was stop
C23_Witness ==
    /\ executed.action = NotAnAction
    /\ executed.task_id = "agent_2"
    /\ ~executed.continue

---------------------------------------------------------------------------
(* The classifier on its own: _classify_error_severity (lines 208-266)     *)
(* applied once to an exit code, a stderr text and a status.               *)

\* fragments a stderr text is made of
MaxFragments == 2

\* exit codes: killed by a signal, success, ordinary failures, and the codes
\* around the limit of line 263
ClassifierCodes == {-9, -1, 0, 1, 99, 100, 101}

\* stderr fragments: critical and transient patterns in several letter
\* cases, and text matching no pattern
Fragments == {"Permission denied", "PERMISSION DENIED", "Out of memory",
              "CRITICAL", "Try again", "TRY AGAIN", "Connection timeout",
              "segfault"}

ClassifierTexts == UNION {[1..n -> Fragments] : n \in 0..MaxFragments}

InitClassify ==
    /\ Init
    /\ on_critical_error = "none"
    /\ default_escalation = "stop_pipeline"

\* the arguments of one call
ClassifyCall ==
    /\ classification = NoClassified
    /\ \E exit_code \in ClassifierCodes, error_output \in ClassifierTexts,
          status \in TaskStatus :
          classification' = [exit_code |-> exit_code,
                             error_output |-> error_output,
                             status |-> status, severity |-> "called"]
    /\ UNCHANGED <<supervisorVars, clientVars, backgroundVars, blockingVars,
                   all_spawned_processes, critical_errors, configured_default,
                   decision, executed, errors_copy, checker, retrier, issuer, handles>>

\* the call returns
ClassifyReturns ==
    /\ classification.severity = "called"
    /\ classification' =
          [classification EXCEPT !.severity =
              _classify_error_severity(classification.exit_code,
                                       classification.error_output,
                                       classification.status)]
    /\ UNCHANGED <<supervisorVars, clientVars, backgroundVars, blockingVars,
                   all_spawned_processes, critical_errors, configured_default,
                   decision, executed, errors_copy, checker, retrier, issuer, handles>>

NextClassify == ClassifyCall \/ ClassifyReturns

SpecClassify == InitClassify /\ [][NextClassify]_vars

Classified == classification.severity \notin {"none", "called"}

\* the substrings of the two lists, in lower case
CriticalSubstrings ==
    {"api rate limit", "authentication failed", "permission denied",
     "out of memory", "disk full", "network unreachable",
     "internal server error", "critical"}

TransientSubstrings ==
    {"connection timeout", "temporary failure",
     "resource temporarily unavailable", "try again"}

Contains(text, substrings) ==
    \E i \in DOMAIN text : Lower(text[i]) \in substrings

\* C28: the classifier's rules apply in a fixed order: status TIMEOUT gives
\* FATAL whatever the text and the code; otherwise a critical substring in
\* the text, in any letter case, gives CRITICAL even beside a transient one
\* and whatever the code; otherwise a transient substring gives RECOVERABLE
\* whatever the code; 'Permission denied' with exit code 1 is CRITICAL and
\* 'Try again' with exit code 1 is RECOVERABLE.
C28_ClassifierPrecedence ==
    Classified =>
        LET c == classification
        IN  /\ c.status = "timeout" => c.severity = "fatal"
            /\ (c.status # "timeout"
                    /\ Contains(c.error_output, CriticalSubstrings))
                  => c.severity = "critical"
            /\ (c.status # "timeout"
                    /\ ~Contains(c.error_output, CriticalSubstrings)
                    /\ Contains(c.error_output, TransientSubstrings))
                  => c.severity = "recoverable"
            /\ (c.status # "timeout" /\ c.exit_code = 1
                    /\ c.error_output = <<"Permission denied">>)
                  => c.severity = "critical"
            /\ (c.status # "timeout" /\ c.exit_code = 1
                    /\ c.error_output = <<"Try again">>)
                  => c.severity = "recoverable"

\* a text with a transient and a critical substring and exit code 1 was
\* classified CRITICAL
C28_Witness ==
    /\ Classified
    /\ classification.status = "completed"
    /\ classification.exit_code = 1
    /\ classification.error_output = <<"TRY AGAIN", "PERMISSION DENIED">>
    /\ classification.severity = "critical"

\* C29: without status TIMEOUT and without a critical or transient substring
\* the exit code alone decides: 0 RECOVERABLE, negative CRITICAL, 100 and
\* above CRITICAL, 1 to 99 RECOVERABLE; and every call returns a severity.
C29_ExitCodeFallback ==
    Classified =>
        LET c == classification
        IN  /\ c.severity \in ErrorSeverity
            /\ (c.status # "timeout"
                    /\ ~Contains(c.error_output, CriticalSubstrings)
                    /\ ~Contains(c.error_output, TransientSubstrings))
                  => c.severity = IF c.exit_code < 0 \/ c.exit_code >= 100
                                  THEN "critical"
                                  ELSE "recoverable"

\* exit code 100 with a text matching nothing was classified CRITICAL
C29_Witness ==
    /\ Classified
    /\ classification.status = "failed"
    /\ classification.exit_code = 100
    /\ classification.error_output = <<"segfault">>
    /\ classification.severity = "critical"

---------------------------------------------------------------------------
(* HealthMonitor: HealthChecker (_common/health_checker.py) watching one   *)
(* pid.  Time is a counter; CPU percent and resident memory are small      *)
(* numbers on the scale of the thresholds below.                           *)

\* how far the clock runs
MaxClock == 4

\* HealthChecker.__init__, lines 55-58 and 68-71, scaled
activity_timeout == 2
memory_limit_mb == 2
cpu_threshold == 1

\* HealthStatus, lines 18-26
HealthStatus == {"healthy", "timeout", "hung", "high_memory", "high_cpu",
                 "not_found", "terminated"}

\* the methods class Logger has (_common/logger.py, lines 180-198)
LoggerMethods == {"debug", "info", "warn", "error"}

\* a pid missing from _last_activity or _start_time
NoKey == -1

NoReport == [status |-> "none", last_activity_seconds |-> 0, raised |-> "none"]
NoVerdict == [kill |-> FALSE, raised |-> "none"]

\* What psutil shows of the pid: no such process; or a process whose
\* inspection fails (psutil.AccessDenied from cpu_percent or memory_info);
\* or a process with its running flag, CPU sample and resident memory.
Processes ==
    {[exists |-> FALSE, fault |-> FALSE, running |-> FALSE, cpu_percent |-> 0,
      memory_mb |-> 0]}
    \cup {[exists |-> TRUE, fault |-> TRUE, running |-> TRUE,
           cpu_percent |-> 0, memory_mb |-> 0]}
    \cup [exists : {TRUE}, fault : {FALSE}, running : BOOLEAN,
          cpu_percent : {cpu_threshold - 1, cpu_threshold},
          memory_mb : {memory_limit_mb, memory_limit_mb + 1}]

InitHealth ==
    /\ InitSupervisor
    /\ on_critical_error = "none"
    /\ default_escalation = "stop_pipeline"
    /\ configured_default = default_escalation
    /\ decision = NoDecision
    /\ executed = NoExecuted
    /\ errors_copy = NoCopy
    /\ classification = NoClassified
    /\ retrier = NoRetrier
    /\ issuer = NoIssuer
    /\ handles = NoHandles
    /\ \E use_cpu_detection \in BOOLEAN, p \in Processes :
          checker = [pc |-> "ready", use_cpu_detection |-> use_cpu_detection,
                     process |-> p, start_time |-> NoKey,
                     last_activity |-> NoKey, now |-> 0,
                     report |-> NoReport, verdict |-> NoVerdict]

HealthFrame ==
    UNCHANGED <<supervisorVars, clientVars, backgroundVars, blockingVars,
                all_spawned_processes, critical_errors, configured_default,
                decision, executed, errors_copy, classification, retrier,
                issuer, handles>>

\* time passes
Tick ==
    /\ checker.pc = "ready"
    /\ checker.now < MaxClock
    /\ checker' = [checker EXCEPT !.now = @ + 1]
    /\ HealthFrame

\* register_process(pid), lines 79-87
RegisterProcess ==
    /\ checker.pc = "ready"
    /\ checker' = [checker EXCEPT !.start_time = checker.now,
                                   !.last_activity = checker.now]
    /\ checker' # checker
    /\ HealthFrame

\* record_activity(pid), lines 89-97
RecordActivity ==
    /\ checker.pc = "ready"
    /\ checker' = [checker EXCEPT !.last_activity = checker.now]
    /\ checker' # checker
    /\ HealthFrame

\* lines 116-122: seconds since the last recorded activity
LastActivitySeconds(c) ==
    LET start_time == IF c.start_time = NoKey THEN c.now ELSE c.start_time
        last_activity == IF c.last_activity = NoKey THEN start_time
                         ELSE c.last_activity
    IN  c.now - last_activity

\* check_health(pid), lines 99-214.  A logger call on a method class Logger
\* does not have raises AttributeError: inside the try it is caught at line
\* 204 and the report is NOT_FOUND; inside the handler of line 193 it leaves
\* check_health.
check_health(c) ==
    LET p == c.process
        idle == LastActivitySeconds(c)
        Report(status) == [status |-> status, last_activity_seconds |-> idle,
                           raised |-> "none"]
        NotFound == [status |-> "not_found", last_activity_seconds |-> 0,
                     raised |-> "none"]
        Logged(method, report) ==
            IF method \in LoggerMethods THEN report ELSE NotFound
    IN  IF ~p.exists
        THEN IF "warning" \in LoggerMethods
             THEN NotFound
             ELSE [status |-> "none", last_activity_seconds |-> 0,
                   raised |-> "AttributeError"]
        ELSE IF p.fault THEN Logged("error", NotFound)
        ELSE IF ~p.running THEN Logged("warning", Report("terminated"))
        ELSE IF p.memory_mb > memory_limit_mb
             THEN Logged("warning", Report("high_memory"))
        ELSE IF idle > activity_timeout
             THEN IF c.use_cpu_detection /\ p.cpu_percent >= cpu_threshold
                  THEN Logged("debug", Report("healthy"))
                  ELSE Logged("warning", Report("hung"))
        ELSE Logged("debug", Report("healthy"))

\* should_kill(pid), lines 216-247: the verdict on a report; an exception
\* of check_health (line 226) passes through.
should_kill(report) ==
    IF report.raised # "none"
    THEN [kill |-> FALSE, raised |-> report.raised]
    ELSE [kill |-> report.status \in {"hung", "high_memory"},
          raised |-> "none"]

CheckHealth ==
    /\ checker.pc = "ready"
    /\ checker' = [checker EXCEPT !.pc = "checked",
                                   !.report = check_health(checker)]
    /\ HealthFrame

ShouldKill ==
    /\ checker.pc = "ready"
    /\ checker' = [checker EXCEPT
                      !.pc = "judged",
                      !.report = check_health(checker),
                      !.verdict = should_kill(check_health(checker))]
    /\ HealthFrame

\* the caller is done with the report
DropReport ==
    /\ checker.pc \in {"checked", "judged"}
    /\ checker' = [checker EXCEPT !.pc = "ready", !.report = NoReport,
                                   !.verdict = NoVerdict]
    /\ HealthFrame

NextHealth ==
    \/ Tick
    \/ RegisterProcess
    \/ RecordActivity
    \/ CheckHealth
    \/ ShouldKill
    \/ DropReport

SpecHealth == InitHealth /\ [][NextHealth]_vars

\* C25: check_health classifies in a fixed order and never raises: a
\* process that does not exist or cannot be inspected is NOT_FOUND; else one
\* that has exited is TERMINATED; else one over the memory limit is
\* HIGH_MEMORY, inactive or not; only then inactivity gives HUNG or HEALTHY.
C25_HealthPrecedence ==
    checker.pc = "checked" =>
        LET p == checker.process
            r == checker.report
        IN  /\ r.raised = "none"
            /\ (~p.exists \/ p.fault) => r.status = "not_found"
            /\ (p.exists /\ ~p.fault /\ ~p.running)
                  => r.status = "terminated"
            /\ (p.exists /\ ~p.fault /\ p.running
                    /\ p.memory_mb > memory_limit_mb)
                  => r.status = "high_memory"
            /\ (p.exists /\ ~p.fault /\ p.running
                    /\ p.memory_mb <= memory_limit_mb)
                  => r.status \in {"hung", "healthy"}

\* a live process within the memory limit was checked
LiveWithinLimit ==
    /\ checker.process.exists
    /\ ~checker.process.fault
    /\ checker.process.running
    /\ checker.process.memory_mb <= memory_limit_mb

\* C26: for a live process within the memory limit that has been inactive
\* for longer than the timeout, check_health answers HEALTHY when CPU
\* detection is on and the CPU sample is at or above the threshold, and HUNG
\* otherwise; the same check with the sample on the other side of the
\* threshold answers the opposite; within the timeout the answer is HEALTHY
\* whatever the CPU sample.
C26_CpuOverride ==
    (checker.pc = "checked" /\ LiveWithinLimit) =>
        LET p == checker.process
            r == checker.report
            at == [checker EXCEPT !.process.cpu_percent = cpu_threshold]
            below == [checker EXCEPT !.process.cpu_percent = cpu_threshold - 1]
        IN  IF LastActivitySeconds(checker) > activity_timeout
            THEN /\ r.status =
                      IF checker.use_cpu_detection
                            /\ p.cpu_percent >= cpu_threshold
                      THEN "healthy"
                      ELSE "hung"
                 /\ checker.use_cpu_detection =>
                      /\ check_health(at).status = "healthy"
                      /\ check_health(below).status = "hung"
            ELSE r.status = "healthy"

\* C27: should_kill answers true exactly when the health classification of
\* the pid is HUNG or HIGH_MEMORY, answers false for NOT_FOUND, TERMINATED
\* and HEALTHY, and leaves the tracked start and last-activity times alone.
C27_ShouldKill ==
    [][(checker.pc = "ready" /\ checker'.pc = "judged") =>
          /\ checker'.verdict.raised = "none"
          /\ checker'.report.status \in {"hung", "high_memory"}
                => checker'.verdict.kill
          /\ checker'.report.status
                  \in {"not_found", "terminated", "healthy"}
                => ~checker'.verdict.kill
          /\ checker'.report.status \in HealthStatus
          /\ checker'.start_time = checker.start_time
          /\ checker'.last_activity = checker.last_activity]_vars

---------------------------------------------------------------------------
(* RetryEngine: RetryHandler.retry (_common/retry_handler.py, lines        *)
(* 57-137) called once on an operation whose calls succeed or raise as     *)
(* scripted.  Delays are whole seconds.                                    *)

\* the largest max_attempts, and the length of an operation's script
MaxAttempts == 3

BackoffStrategy == {"constant", "linear", "exponential"}

\* what one call of the operation does: return a result, raise an exception
\* of a type in retryable_exceptions, or raise one of another type
OperationOutcomes == {"ok", "retryable", "other"}

NoOutcome == [kind |-> "none", call |-> 0, exception |-> "none"]

RECURSIVE Power(_, _)
Power(b, n) == IF n = 0 THEN 1 ELSE b * Power(b, n - 1)

Min(a, b) == IF a <= b THEN a ELSE b

\* _calculate_delay without the cap of line 181
_calculate_delay_uncapped(r, attempt) ==
    CASE r.backoff_strategy = "constant" -> r.base_delay_seconds
      [] r.backoff_strategy = "linear" -> r.base_delay_seconds * attempt
      [] r.backoff_strategy = "exponential" ->
            r.base_delay_seconds * Power(r.backoff_multiplier, attempt - 1)
      [] OTHER -> r.base_delay_seconds

\* _calculate_delay(attempt), lines 158-183
_calculate_delay(r, attempt) ==
    LET delay ==
          CASE r.backoff_strategy = "constant" -> r.base_delay_seconds
            [] r.backoff_strategy = "linear" -> r.base_delay_seconds * attempt
            [] r.backoff_strategy = "exponential" ->
                  r.base_delay_seconds
                      * Power(r.backoff_multiplier, attempt - 1)
            [] OTHER -> r.base_delay_seconds
    IN  Min(delay, r.max_delay_seconds)

InitRetry ==
    /\ InitSupervisor
    /\ on_critical_error = "none"
    /\ default_escalation = "stop_pipeline"
    /\ configured_default = default_escalation
    /\ decision = NoDecision
    /\ executed = NoExecuted
    /\ errors_copy = NoCopy
    /\ classification = NoClassified
    /\ checker = NoChecker
    /\ issuer = NoIssuer
    /\ handles = NoHandles
    /\ \E max_attempts \in -1..MaxAttempts,
          operation \in [1..MaxAttempts -> OperationOutcomes],
          backoff_strategy \in BackoffStrategy,
          base_delay_seconds \in {1, 2},
          on_retry \in {"none", "returns", "raises"} :
          retrier = [pc |-> "idle", max_attempts |-> max_attempts,
                     operation |-> operation,
                     backoff_strategy |-> backoff_strategy,
                     base_delay_seconds |-> base_delay_seconds,
                     backoff_multiplier |-> 2, max_delay_seconds |-> 3,
                     on_retry |-> on_retry, attempt |-> 0, calls |-> 0,
                     last_exception |-> "none", waits |-> <<>>,
                     hooks |-> <<>>, retry_stats |-> <<>>,
                     trace |-> <<>>, outcome |-> NoOutcome]

RetryFrame ==
    UNCHANGED <<supervisorVars, clientVars, backgroundVars, blockingVars,
                all_spawned_processes, critical_errors, configured_default,
                decision, executed, errors_copy, classification, checker,
                issuer, handles>>

\* retry(func) is entered: lines 76-80
RetryCall ==
    /\ retrier.pc = "idle"
    /\ retrier' = [retrier EXCEPT !.pc = "loop"]
    /\ RetryFrame

\* One pass of the while body, lines 83-133, for the record r of a retry
\* whose operation does `outcome` in this call.
\*   ok: statistics when it took more than one attempt, and return;
\*   an exception of another type: it leaves retry;
\*   a retryable exception on the last attempt: statistics, break, and the
\*     raise of line 136;
\*   a retryable exception before the last attempt: logger.warning (line
\*     117), the hook (its own exception is swallowed, lines 123-127), the
\*     delay and the sleep; class Logger has no method
\*     `warning`, and the AttributeError raised inside the handler leaves
\*     retry.
Attempt(r, outcome) ==
    LET attempt == r.attempt + 1
        called == [r EXCEPT !.attempt = attempt, !.calls = @ + 1,
                            !.trace = Append(@, <<"call", attempt>>)]
    IN  CASE outcome = "ok" ->
               [called EXCEPT
                  !.pc = "returned",
                  !.retry_stats =
                      IF attempt > 1
                      THEN Append(@, [attempts |-> attempt, success |-> TRUE])
                      ELSE @,
                  !.outcome = [kind |-> "returned", call |-> attempt,
                               exception |-> "none"]]
          [] outcome = "other" ->
               [called EXCEPT
                  !.pc = "raised",
                  !.outcome = [kind |-> "raised", call |-> attempt,
                               exception |-> "other"]]
          [] outcome = "retryable" /\ attempt >= r.max_attempts ->
               [called EXCEPT
                  !.pc = "raised",
                  !.last_exception = "retryable",
                  !.retry_stats =
                      Append(@, [attempts |-> attempt, success |-> FALSE,
                                 error |-> "retryable"]),
                  !.outcome = [kind |-> "raised", call |-> attempt,
                               exception |-> "retryable"]]
          [] outcome = "retryable" /\ attempt < r.max_attempts ->
               IF "warning" \in LoggerMethods
               THEN [called EXCEPT
                       !.pc = "loop",
                       !.last_exception = "retryable",
                       !.hooks =
                           IF r.on_retry = "none" THEN @
                           ELSE Append(@, [attempt |-> attempt,
                                           exception |-> "retryable"]),
                       !.trace =
                           called.trace
                             \o (IF r.on_retry = "none" THEN <<>>
                                 ELSE <<<<"hook", attempt>>>>)
                             \o <<<<"wait", attempt>>>>,
                       !.waits = Append(@, _calculate_delay(r, attempt))]
               ELSE [called EXCEPT
                       !.pc = "raised",
                       !.last_exception = "retryable",
                       !.outcome = [kind |-> "raised", call |-> attempt,
                                    exception |-> "AttributeError"]]

RetryAttempt ==
    /\ retrier.pc = "loop"
    /\ retrier.attempt < retrier.max_attempts
    /\ retrier' = Attempt(retrier, retrier.operation[retrier.attempt + 1])
    /\ RetryFrame

\* The loop condition of line 82 fails with no break before it: lines
\* 135-136 find no exception to raise and retry returns None.
RetryLoopEnds ==
    /\ retrier.pc = "loop"
    /\ retrier.attempt >= retrier.max_attempts
    /\ retrier' =
          [retrier EXCEPT
             !.pc = IF retrier.last_exception = "none" THEN "returned"
                    ELSE "raised",
             !.outcome = IF retrier.last_exception = "none"
                         THEN [kind |-> "returned", call |-> 0,
                               exception |-> "none"]
                         ELSE [kind |-> "raised", call |-> retrier.attempt,
                               exception |-> retrier.last_exception]]
    /\ RetryFrame

NextRetry == RetryCall \/ RetryAttempt \/ RetryLoopEnds

SpecRetry == InitRetry /\ [][NextRetry]_vars

RetryOver == retrier.pc \in {"returned", "raised"}

\* C30: retry calls the operation at most max_attempts times and stops at
\* the first call that succeeds, returning that call's result; with
\* max_attempts = 3 and an operation that raises a retryable exception on
\* its first two calls and succeeds on the third, it returns the third
\* call's result after exactly two waits, of the delays computed for
\* attempts 1 and 2.
C30_RetryUntilSuccess ==
    /\ retrier.max_attempts >= 0 => retrier.calls <= retrier.max_attempts
    /\ \A n \in 1..retrier.calls :
          retrier.operation[n] = "ok" =>
              /\ n = retrier.calls
              /\ retrier.outcome = [kind |-> "returned", call |-> n,
                                    exception |-> "none"]
    /\ (RetryOver /\ retrier.max_attempts = 3
            /\ retrier.operation[1] = "retryable"
            /\ retrier.operation[2] = "retryable"
            /\ retrier.operation[3] = "ok") =>
          /\ retrier.outcome = [kind |-> "returned", call |-> 3,
                                exception |-> "none"]
          /\ retrier.waits = <<_calculate_delay(retrier, 1),
                               _calculate_delay(retrier, 2)>>

\* the operation raises a retryable exception on each of its first n calls
FailsFirst(n) == \A k \in 1..n : retrier.operation[k] = "retryable"

\* C31: with an operation that raises a retryable exception on each of
\* max_attempts calls (max_attempts >= 1), retry raises the exception of the
\* last of these calls; it does not return normally, and after the final
\* failed attempt there is no wait and no call of the on-retry hook (one of
\* each after every earlier attempt).
C31_ExhaustedRaisesLast ==
    (RetryOver /\ retrier.max_attempts >= 1
        /\ FailsFirst(retrier.max_attempts)) =>
        /\ retrier.outcome = [kind |-> "raised",
                              call |-> retrier.max_attempts,
                              exception |-> "retryable"]
        /\ Len(retrier.waits) = retrier.max_attempts - 1
        /\ Len(retrier.hooks) = IF retrier.on_retry = "none" THEN 0
                                ELSE retrier.max_attempts - 1

\* C32: an exception of a type that is not retryable leaves retry at its
\* first occurrence, on whichever attempt the operation raises it: there is
\* no further call, no wait and no hook call for it.
C32_NonRetryablePropagates ==
    \A n \in 1..MaxAttempts :
        (RetryOver /\ n <= retrier.max_attempts /\ FailsFirst(n - 1)
            /\ retrier.operation[n] = "other") =>
            /\ retrier.outcome = [kind |-> "raised", call |-> n,
                                  exception |-> "other"]
            /\ retrier.calls = n
            /\ Len(retrier.waits) = n - 1
            /\ Len(retrier.hooks) <= n - 1

\* C34: a configured on-retry hook is called once before each wait, with the
\* number of the attempt that just failed and its exception, and before the
\* wait begins; when the hook raises, the wait and the next attempt go on as
\* when it returns.
C34_HookBeforeEachWait ==
    \A n \in 1..MaxAttempts :
        (retrier.on_retry # "none" /\ n < retrier.max_attempts
            /\ FailsFirst(n) /\ retrier.calls >= n) =>
            /\ Len(retrier.hooks) >= n
            /\ retrier.hooks[n] = [attempt |-> n, exception |-> "retryable"]
            /\ Len(retrier.waits) >= n
            /\ \E i, j \in DOMAIN retrier.trace :
                  /\ i < j
                  /\ retrier.trace[i] = <<"hook", n>>
                  /\ retrier.trace[j] = <<"wait", n>>
            /\ RetryOver => retrier.calls > n

\* C35: when a retry() call is over, by success on the first attempt, by
\* success after retries, by exhaustion or by an exception that is not
\* retryable, the statistics hold a record for it with its number of attempts
\* and its success or failure.
C35_StatsAfterEachCall ==
    (RetryOver /\ retrier.calls >= 1) =>
        /\ Len(retrier.retry_stats) = 1
        /\ retrier.retry_stats[1].attempts = retrier.calls
        /\ retrier.retry_stats[1].success
              = (retrier.outcome.kind = "returned")

\* C40: every retry() call returns a result that a call of the operation
\* produced, or raises an exception that the operation raised, for every
\* max_attempts, zero and negative values included.
C40_ResultFromOperation ==
    RetryOver =>
        /\ retrier.outcome.call \in 1..retrier.calls
        /\ retrier.outcome.kind = "returned"
              => retrier.operation[retrier.outcome.call] = "ok"
        /\ retrier.outcome.kind = "raised"
              => retrier.outcome.exception
                    = retrier.operation[retrier.outcome.call]

\* ---------------------------------------------------------------------
\* SpecDelay: RetryHandler._calculate_delay as a function of the
\* configuration and the attempt number (retry_handler.py:158-183), over
\* integer base delays, multipliers and caps. The delay is computed for
\* attempt 1, 2, ... in turn, as retry does at line 130.
\* ---------------------------------------------------------------------

MaxDelays == 4

BaseDelays == 0..2

Multipliers == 0..2

MaxDelaySeconds == 0..3

InitDelay ==
    /\ InitSupervisor
    /\ on_critical_error = "none"
    /\ default_escalation = "stop_pipeline"
    /\ configured_default = default_escalation
    /\ decision = NoDecision
    /\ executed = NoExecuted
    /\ errors_copy = NoCopy
    /\ classification = NoClassified
    /\ checker = NoChecker
    /\ issuer = NoIssuer
    /\ handles = NoHandles
    /\ \E backoff_strategy \in BackoffStrategy,
          base_delay_seconds \in BaseDelays,
          backoff_multiplier \in Multipliers,
          max_delay_seconds \in MaxDelaySeconds :
          retrier = [pc |-> "delay",
                     backoff_strategy |-> backoff_strategy,
                     base_delay_seconds |-> base_delay_seconds,
                     backoff_multiplier |-> backoff_multiplier,
                     max_delay_seconds |-> max_delay_seconds,
                     delays |-> <<>>]

\* delay = self._calculate_delay(attempt), line 130
CalculateDelay ==
    /\ retrier.pc = "delay"
    /\ Len(retrier.delays) < MaxDelays
    /\ retrier' = [retrier EXCEPT !.delays =
           Append(@, _calculate_delay(retrier, Len(retrier.delays) + 1))]
    /\ RetryFrame

NextDelay == CalculateDelay

SpecDelay == InitDelay /\ [][NextDelay]_vars

\* C33: the delay after failed attempt n is min(d, max_delay), with d the
\* base for the constant strategy, base*n for linear and
\* base*multiplier^(n-1) for exponential; no delay exceeds max_delay, and
\* with a multiplier of at least 1 the delays never decrease from one
\* attempt to the next.
C33_DelayFormula ==
    retrier.pc = "delay" =>
        \A n \in 1..Len(retrier.delays) :
            LET base == retrier.base_delay_seconds
                d == CASE retrier.backoff_strategy = "constant" -> base
                       [] retrier.backoff_strategy = "linear" -> base * n
                       [] retrier.backoff_strategy = "exponential" ->
                             base * Power(retrier.backoff_multiplier, n - 1)
            IN  /\ retrier.delays[n] = Min(d, retrier.max_delay_seconds)
                /\ retrier.delays[n] <= retrier.max_delay_seconds
                /\ (retrier.backoff_multiplier >= 1 /\ n > 1)
                      => retrier.delays[n - 1] <= retrier.delays[n]

\* an exponential schedule that grows and then meets the cap
C33_Witness ==
    /\ retrier.pc = "delay"
    /\ retrier.backoff_strategy = "exponential"
    /\ retrier.base_delay_seconds = 1
    /\ retrier.backoff_multiplier = 2
    /\ retrier.max_delay_seconds = 3
    /\ retrier.delays = <<1, 2, 3, 3>>

\* ---------------------------------------------------------------------
\* SpecIds: the task ids and sink paths given out by one supervisor.
\* spawn_blocking names its task after the stage label and the second of
\* the clock (spawner.py:473-475); spawn_agent(background=True) after the
\* prefix and _task_counter (lines 427-428), which it increments with no
\* lock; _execute_task derives the sink paths from the id (lines 883-893).
\* Two threads call the supervisor; the clock moves on its own.
\* ---------------------------------------------------------------------

MaxIds == 3

\* int(time.time()) when the first call is made
Epoch == 1000

Seconds == {Epoch, Epoch + 1}

Labels == {"agent", "dev"}

Callers == {1, 2}

\* f"{label}_{n}"
TaskId(label, n) == <<label, "_", n>>

\* temp_dir / f"{task_id}.stdout"
StdoutPath(task_id) == <<".orchestrate-temp", task_id, ".stdout">>

InitIds ==
    /\ InitSupervisor
    /\ on_critical_error = "none"
    /\ default_escalation = "stop_pipeline"
    /\ configured_default = default_escalation
    /\ decision = NoDecision
    /\ executed = NoExecuted
    /\ errors_copy = NoCopy
    /\ classification = NoClassified
    /\ checker = NoChecker
    /\ retrier = NoRetrier
    /\ handles = NoHandles
    /\ issuer = [pc |-> "ready", now |-> Epoch, task_counter |-> 0,
                 callers |-> [c \in Callers |->
                                [pc |-> "idle", prefix |-> "none",
                                 loaded |-> 0]],
                 tasks |-> <<>>]

IdsFrame ==
    UNCHANGED <<supervisorVars, clientVars, backgroundVars, blockingVars,
                all_spawned_processes, critical_errors, configured_default,
                decision, executed, errors_copy, classification, checker,
                retrier, handles>>

\* ids given out or about to be
IdsInHand ==
    Len(issuer.tasks)
        + Cardinality({c \in Callers : issuer.callers[c].pc # "idle"})

\* time.time() moves to the next second
SecondPasses ==
    /\ issuer.pc = "ready"
    /\ issuer.now + 1 \in Seconds
    /\ issuer' = [issuer EXCEPT !.now = @ + 1]
    /\ IdsFrame

\* spawn_blocking, lines 473-475: the id and the sink path of the task
SpawnBlockingId(c, label) ==
    /\ issuer.pc = "ready"
    /\ issuer.callers[c].pc = "idle"
    /\ IdsInHand < MaxIds
    /\ LET task_id == TaskId(label, issuer.now)
       IN  issuer' = [issuer EXCEPT !.tasks =
               Append(@, [kind |-> "blocking", task_id |-> task_id,
                          stdout_path |-> StdoutPath(task_id)])]
    /\ IdsFrame

\* spawn_agent, line 427: self._task_counter += 1 reads the counter ...
LoadCounter(c, prefix) ==
    /\ issuer.pc = "ready"
    /\ issuer.callers[c].pc = "idle"
    /\ IdsInHand < MaxIds
    /\ issuer' = [issuer EXCEPT !.callers[c] =
           [pc |-> "loaded", prefix |-> prefix,
            loaded |-> issuer.task_counter]]
    /\ IdsFrame

\* ... and writes it back one higher
StoreCounter(c) ==
    /\ issuer.pc = "ready"
    /\ issuer.callers[c].pc = "loaded"
    /\ issuer' = [issuer EXCEPT !.task_counter = issuer.callers[c].loaded + 1,
                                !.callers[c].pc = "stored"]
    /\ IdsFrame

\* spawn_agent, line 428, and _execute_task, lines 883-886: the id is
\* formatted from the counter as it is now, the sink path from the id
FormatId(c) ==
    /\ issuer.pc = "ready"
    /\ issuer.callers[c].pc = "stored"
    /\ LET task_id == TaskId(issuer.callers[c].prefix, issuer.task_counter)
       IN  issuer' = [issuer EXCEPT
               !.tasks = Append(@, [kind |-> "background",
                                     task_id |-> task_id,
                                     stdout_path |-> StdoutPath(task_id)]),
               !.callers[c] = [pc |-> "idle", prefix |-> "none",
                               loaded |-> 0]]
    /\ IdsFrame

NextIds ==
    \/ SecondPasses
    \/ \E c \in Callers, label \in Labels : SpawnBlockingId(c, label)
    \/ \E c \in Callers, prefix \in Labels : LoadCounter(c, prefix)
    \/ \E c \in Callers : StoreCounter(c)
    \/ \E c \in Callers : FormatId(c)

SpecIds == InitIds /\ [][NextIds]_vars

\* C36: no two tasks of one supervisor, blocking or background, spawned one
\* after the other or from different threads, have the same task id, and no
\* two have the same output sink file.
C36_UniqueTaskIds ==
    issuer.pc = "ready" =>
        \A i, j \in DOMAIN issuer.tasks :
            i # j =>
                /\ issuer.tasks[i].task_id # issuer.tasks[j].task_id
                /\ issuer.tasks[i].stdout_path # issuer.tasks[j].stdout_path

\* ---------------------------------------------------------------------
\* SpecHandles: BackgroundTask handles (spawner.py:71-91) and the queries
\* on them. Handles registered in _active_tasks are made by spawn_agent
\* with status PENDING and moved on by their worker (_execute_task, lines
\* 879, 953, 1019, 1051); BackgroundTask is a dataclass whose status is a
\* constructor argument, so a caller can also hold a handle made with any
\* TaskStatus.
\* ---------------------------------------------------------------------

MaxHandles == 2

NoAsked == [op |-> "none", status |-> "none", answer |-> FALSE,
            seen |-> <<>>, tasks |-> {}]

\* BackgroundTask.is_running, lines 85-87 (is_done, lines 89-91, is defined
\* with the caller's view of the background tasks)
is_running(tk) == tk.status = "running"

\* ClaudeSpawner.get_active_tasks, lines 1144-1149, over the statuses of
\* the registered tasks: the keys of those that are running
get_active_tasks(active) ==
    {k \in DOMAIN active : is_running([status |-> active[k]])}

\* the statuses a worker gives its task, from the status it has
WorkerStatuses(status) ==
    CASE status = "pending" -> {"running"}
      [] status = "running" -> {"completed", "failed", "timeout"}
      [] OTHER -> {}

InitHandles ==
    /\ InitSupervisor
    /\ on_critical_error = "none"
    /\ default_escalation = "stop_pipeline"
    /\ configured_default = default_escalation
    /\ decision = NoDecision
    /\ executed = NoExecuted
    /\ errors_copy = NoCopy
    /\ classification = NoClassified
    /\ checker = NoChecker
    /\ retrier = NoRetrier
    /\ issuer = NoIssuer
    /\ handles = [pc |-> "ready", active |-> <<>>, made |-> "none",
                  asked |-> NoAsked]

HandlesFrame ==
    UNCHANGED <<supervisorVars, clientVars, backgroundVars, blockingVars,
                all_spawned_processes, critical_errors, configured_default,
                decision, executed, errors_copy, classification, checker,
                retrier, issuer>>

\* spawn_agent(background=True), lines 429-442: a PENDING handle, registered
SpawnAgentHandle ==
    /\ handles.pc = "ready"
    /\ Len(handles.active) < MaxHandles
    /\ handles' = [handles EXCEPT !.active = Append(@, "pending")]
    /\ HandlesFrame

\* _execute_task assigns task.status, lines 879, 953, 1019, 1051
WorkerSetsStatus(k) ==
    /\ handles.pc = "ready"
    /\ k \in DOMAIN handles.active
    /\ \E status \in WorkerStatuses(handles.active[k]) :
          handles' = [handles EXCEPT !.active[k] = status]
    /\ HandlesFrame

\* BackgroundTask(task_id, stage_name, status=status), lines 71-83
MakeHandle(status) ==
    /\ handles.pc = "ready"
    /\ handles.made = "none"
    /\ handles' = [handles EXCEPT !.made = status]
    /\ HandlesFrame

\* the statuses of the handles there are
HandleStatuses ==
    {handles.active[k] : k \in DOMAIN handles.active}
        \cup (IF handles.made = "none" THEN {} ELSE {handles.made})

\* task.is_done()
AskIsDone ==
    /\ handles.pc = "ready"
    /\ \E status \in HandleStatuses :
          handles' = [handles EXCEPT !.asked =
              [NoAsked EXCEPT !.op = "is_done", !.status = status,
                              !.answer = is_done([status |-> status])]]
    /\ HandlesFrame

\* task.is_running()
AskIsRunning ==
    /\ handles.pc = "ready"
    /\ \E status \in HandleStatuses :
          handles' = [handles EXCEPT !.asked =
              [NoAsked EXCEPT !.op = "is_running", !.status = status,
                              !.answer = is_running([status |-> status])]]
    /\ HandlesFrame

\* spawner.get_active_tasks()
AskActiveTasks ==
    /\ handles.pc = "ready"
    /\ handles' = [handles EXCEPT !.asked =
           [NoAsked EXCEPT !.op = "get_active_tasks",
                           !.seen = handles.active,
                           !.tasks = get_active_tasks(handles.active)]]
    /\ HandlesFrame

NextHandles ==
    \/ SpawnAgentHandle
    \/ \E k \in 1..MaxHandles : WorkerSetsStatus(k)
    \/ \E status \in TaskStatus : MakeHandle(status)
    \/ AskIsDone
    \/ AskIsRunning
    \/ AskActiveTasks

SpecHandles == InitHandles /\ [][NextHandles]_vars

\* C37: is_done() is true exactly for the statuses COMPLETED, FAILED, TIMEOUT
\* and CRITICAL_ERROR (false for PENDING and RUNNING), is_running() exactly
\* for RUNNING, and get_active_tasks returns exactly the registered tasks
\* whose status is RUNNING.
C37_DoneIffTerminal ==
    handles.pc = "ready" =>
        /\ handles.asked.op = "is_done" =>
              handles.asked.answer = (handles.asked.status \in Terminal)
        /\ handles.asked.op = "is_running" =>
              handles.asked.answer = (handles.asked.status = "running")
        /\ handles.asked.op = "get_active_tasks" =>
              handles.asked.tasks
                  = {k \in DOMAIN handles.asked.seen :
                        handles.asked.seen[k] = "running"}

=============================================================================
